---- MODULE Spec2Model ----
(***************************************************************************)
(* A model of the JMeter results analyzer (analysis-go/main.go): the size  *)
(* categorizer, the CSV record parser with its thread-count filter, the    *)
(* aggregator (calculateStatistics), the scale choice of plotGraph, the    *)
(* report printer and main; then the percentile mode, the sleep service in *)
(* its two implementations (net/http and fasthttp), and the loops of the   *)
(* two test-suite scripts (run-all-tests.sh, run-stepping-test.sh).        *)
(* Further: the thread schedule of run-stepping-test.sh, the log function  *)
(* of the two scripts, the response pools of the fasthttp service under    *)
(* two concurrent requests, and the deploy scripts around their prompt.    *)
(*                                                                         *)
(* Numbers.  Go's int is modelled with 32 bits (a GOARCH=386 build), the   *)
(* widest integer TLC holds.  int64 (the time stamp) is modelled as an     *)
(* Int64Bits-bit two's-complement integer, so that its overflow is within  *)
(* reach of the checker.  float64 values are exact: an elapsed time is a   *)
(* fixed-point number of tenths of a millisecond, and quotients are kept   *)
(* as fractions [num, den] compared by cross-multiplication.               *)
(***************************************************************************)
EXTENDS Integers, Sequences, FiniteSets, TLC

VARIABLES
    pc,         \* the position of the running function
    size,       \* categorizeSize: its argument
    stdIdx,     \* categorizeSize: the index of the standard size examined next
    minDiff,    \* categorizeSize: the smallest difference so far
    nearest,    \* categorizeSize: the label of the nearest standard so far
    input,      \* parseCSV: what reader.Read() has returned so far (history)
    dataPoints, \* parseCSV's result, calculateStatistics' argument
    parseErr,   \* parseCSV: the error it returned ("none" while running)
    groups,     \* calculateStatistics: the map groupKey -> []DataPoint
    pending,    \* calculateStatistics: the keys its range loop has yet to visit
    stats,      \* calculateStatistics' result
    axes,       \* plotGraph: the scale chosen for each axis
    printed,    \* printStatistics: the table rows written, in order
    prevStats,  \* the result of the previous call of calculateStatistics
    calls,      \* the number of calls of calculateStatistics started
    osArgs,     \* main: os.Args
    stdout,     \* main, printStatistics: the lines written that the claims speak of
    pctLatencies, \* percentile mode: the latencies of one group, in file order
    pctSorted,  \* percentile mode: the latencies sorted
    pctRow,     \* percentile mode: the row computed for the group
    request,    \* sleep service: the request sent to both implementations
    netOutcome, \* sleep service on net/http: its response and its sleep
    fastOutcome, \* sleep service on fasthttp: its response and its sleep
    invocation, \* test suites: the script started, its argument, JMeter installed
    current_test, \* test suites: the loop's counter of tests started
    failed_tests, \* test suites: the loop's counter of failed tests
    attempted,  \* test suites: the matrix entries handed to JMeter, in order (history)
    returns,    \* test suites: how many runs of JMeter returned nonzero, and the first
    summary,    \* test suites: the three counts of the final summary
    exitStatus, \* test suites: the exit status of the script, -1 while it runs
    timeline,   \* test suites: the tests, cool-downs and breaks so far, in order (history)
    max_threads, \* stepping test: the thread count the schedule starts from
    current,    \* generate_thread_group_config: the thread level emitted next
    step_num,   \* generate_thread_group_config: the number of the step emitted next
    start_time, \* generate_thread_group_config: the initial delay of the step emitted next
    config,     \* generate_thread_group_config: the steps emitted so far, in order
    heap,       \* fasthttp service: the response objects each pool's New has allocated
    pooled,     \* fasthttp service: the objects each sync.Pool holds (indices into heap)
    handlers,   \* fasthttp service: each goroutine's request, object and response
    LOG_FILE,   \* test scripts: the lines of the test-execution log file
    logged,     \* test scripts: the arguments log was called with, in order (history)
    deployment, \* deploy scripts: the script started and what oc finds
    CONFIRM,    \* deploy scripts: the answer read at the prompt
    cluster     \* deploy scripts: the cluster-modifying oc commands run, in order (history)

vars == <<pc, size, stdIdx, minDiff, nearest, input, dataPoints, parseErr,
          groups, pending, stats, axes, printed, prevStats, calls,
          osArgs, stdout, pctLatencies, pctSorted, pctRow,
          request, netOutcome, fastOutcome,
          invocation, current_test, failed_tests, attempted, returns, summary, exitStatus,
          timeline, max_threads, current, step_num, start_time, config,
          heap, pooled, handlers, LOG_FILE, logged, deployment, CONFIRM, cluster>>

catVars == <<size, stdIdx, minDiff, nearest>>
parseVars == <<input, parseErr>>
statVars == <<groups, pending, stats, axes, printed, prevStats, calls>>
mainVars == <<osArgs, stdout>>
pctVars == <<pctLatencies, pctSorted, pctRow>>
httpVars == <<request, netOutcome, fastOutcome>>
suiteVars == <<invocation, current_test, failed_tests, attempted, returns, summary, exitStatus>>
schedVars == <<max_threads, current, step_num, start_time, config>>
poolVars == <<heap, pooled, handlers>>
logVars == <<LOG_FILE, logged>>
deployVars == <<deployment, CONFIRM, cluster>>
offSuiteVars == <<schedVars, poolVars, logVars, deployVars>>
opsVars == <<timeline, offSuiteVars>>
laterVars == <<pctVars, httpVars, suiteVars, opsVars>>

\* The variables of the parts of the repository a specification leaves alone.
MainIdle == osArgs = <<"analysis">> /\ stdout = <<>>
NoRow == [SampleCount |-> 0]
PctIdle == pctLatencies = <<>> /\ pctSorted = <<>> /\ pctRow = NoRow
NoRequest == [path |-> "none"]
NotServed == [status |-> 0]
HttpIdle == request = NoRequest /\ netOutcome = NotServed /\ fastOutcome = NotServed
NoInvocation == [script |-> "none", PAYLOAD_SIZE_ARG |-> "", jmeter |-> FALSE]
NoReturns == [nonzero |-> 0, first |-> 0]
NoSummary == [Total |-> 0, Successful |-> 0, Failed |-> 0]
SuiteIdle ==
    /\ invocation = NoInvocation
    /\ current_test = 0 /\ failed_tests = 0 /\ attempted = <<>>
    /\ returns = NoReturns /\ summary = NoSummary /\ exitStatus = -1
SchedIdle ==
    max_threads = 0 /\ current = 0 /\ step_num = 1 /\ start_time = 0 /\ config = <<>>
Pools == {"healthResponsePool", "processResponsePool", "errorResponsePool"}
Goroutines == {"g1", "g2"}
NoResponse == [none |-> TRUE]
Waiting == [pc |-> "accept", request |-> [handler |-> "none"], obj |-> 0, written |-> {},
            response |-> NoResponse]
PoolIdle ==
    /\ heap = [p \in Pools |-> <<>>]
    /\ pooled = [p \in Pools |-> {}]
    /\ handlers = [g \in Goroutines |-> Waiting]
LogIdle == LOG_FILE = <<>> /\ logged = <<>>
NoDeployment == [script |-> "none"]
DeployIdle == deployment = NoDeployment /\ CONFIRM = "" /\ cluster = <<>>
OffSuiteIdle == SchedIdle /\ PoolIdle /\ LogIdle /\ DeployIdle
OpsIdle == timeline = <<>> /\ OffSuiteIdle
LaterIdle == PctIdle /\ HttpIdle /\ SuiteIdle /\ OpsIdle

(***************************************************************************)
(* Bounds of the model.                                                    *)
(***************************************************************************)
Int64Bits == 4      \* the width the model gives int64
MaxRows == 3        \* reader.Read() results before the end of the file
MaxSamples == 3     \* samples handed to calculateStatistics

(***************************************************************************)
(* Integers.                                                               *)
(***************************************************************************)
MaxInt == 2147483647

RECURSIVE Pow2(_)
Pow2(n) == IF n = 0 THEN 1 ELSE 2 * Pow2(n - 1)

MaxInt64 == Pow2(Int64Bits - 1) - 1
MinInt64 == -Pow2(Int64Bits - 1)

\* The int64 result of an exact integer: two's-complement wrap-around.
Wrap64(x) == ((x - MinInt64) % Pow2(Int64Bits)) + MinInt64

Abs(x) == IF x < 0 THEN -x ELSE x

(***************************************************************************)
(* categorizeSize                                                          *)
(***************************************************************************)
standards == <<
    [size |-> 1024,    label |-> "1KB"],
    [size |-> 4096,    label |-> "4KB"],
    [size |-> 51200,   label |-> "50KB"],
    [size |-> 204800,  label |-> "200KB"],
    [size |-> 1048576, label |-> "1MB"],
    [size |-> 2097152, label |-> "2MB"],
    [size |-> 5242880, label |-> "5MB"] >>

Labels == {standards[k].label : k \in 1..Len(standards)}

\* if diff < minDiff, with ties going to the later standard: a mutant
CloserLast(diff, best) == diff <= best

\* if diff < minDiff
Closer(diff, best) == diff < best

\* One iteration of the loop over standards, on the pair (minDiff, nearest).
CatStep(sz, k, st) ==
    LET d0 == sz - standards[k].size
        diff == IF d0 < 0 THEN -d0 ELSE d0
    IN  IF Closer(diff, st.minDiff)
        THEN [minDiff |-> diff, nearest |-> standards[k].label]
        ELSE st

RECURSIVE CatLoop(_, _, _)
CatLoop(sz, k, st) ==
    IF k > Len(standards) THEN st.nearest
    ELSE CatLoop(sz, k + 1, CatStep(sz, k, st))

\* The function as a whole, as calculateStatistics calls it.
categorizeSize(sz) == CatLoop(sz, 1, [minDiff |-> MaxInt, nearest |-> "1KB"])

\* The byte counts categorizeSize is tried on: 0, each standard, each midpoint
\* of two neighbouring standards with its two neighbours, and the largest int.
Midpoints == {(standards[k].size + standards[k + 1].size) \div 2 :
                 k \in 1..(Len(standards) - 1)}
Sizes == {0, 1, MaxInt} \cup {standards[k].size : k \in 1..Len(standards)}
         \cup Midpoints \cup {m - 1 : m \in Midpoints} \cup {m + 1 : m \in Midpoints}

InitCategorize ==
    /\ pc = "categorize"
    /\ size \in Sizes
    /\ stdIdx = 1
    /\ minDiff = MaxInt
    /\ nearest = "1KB"
    /\ input = <<>> /\ dataPoints = <<>> /\ parseErr = "none"
    /\ groups = <<>> /\ pending = {} /\ stats = <<>>
    /\ axes = [x |-> "none", y |-> "none"]
    /\ printed = <<>> /\ prevStats = <<>> /\ calls = 0
    /\ MainIdle /\ LaterIdle

CategorizeStep ==
    /\ pc = "categorize"
    /\ stdIdx <= Len(standards)
    /\ LET st == CatStep(size, stdIdx, [minDiff |-> minDiff, nearest |-> nearest])
       IN  /\ minDiff' = st.minDiff
           /\ nearest' = st.nearest
    /\ stdIdx' = stdIdx + 1
    /\ UNCHANGED <<mainVars, laterVars, pc, size, dataPoints, parseVars, statVars>>

CategorizeReturn ==
    /\ pc = "categorize"
    /\ stdIdx > Len(standards)
    /\ pc' = "categorized"
    /\ UNCHANGED <<mainVars, laterVars, catVars, dataPoints, parseVars, statVars>>

NextCategorize == CategorizeStep \/ CategorizeReturn

SpecCategorize == InitCategorize /\ [][NextCategorize]_vars

(***************************************************************************)
(* C1.  For every byte count sentBytes >= 0, categorizeSize returns one of *)
(* the seven labels: the label of the standard size with the smallest      *)
(* absolute difference from sentBytes, and of the first such standard in   *)
(* list order when two are equally near.  The stepwise loop and the        *)
(* function used by the aggregator agree.                                  *)
(***************************************************************************)
NearestIndex(sz) ==
    CHOOSE k \in 1..Len(standards) :
        /\ \A j \in 1..Len(standards) :
               Abs(sz - standards[k].size) <= Abs(sz - standards[j].size)
        /\ \A j \in 1..(k - 1) :
               Abs(sz - standards[j].size) > Abs(sz - standards[k].size)

DigitChars == <<"0", "1", "2", "3", "4", "5", "6", "7", "8", "9">>
Digits == {DigitChars[k] : k \in 1..Len(DigitChars)}
DigitVal(c) == (CHOOSE k \in 1..Len(DigitChars) : DigitChars[k] = c) - 1

IsDigits(s) == Len(s) > 0 /\ \A k \in 1..Len(s) : s[k] \in Digits

RECURSIVE DigitsValue(_)
DigitsValue(s) ==
    IF s = <<>> THEN 0
    ELSE DigitsValue(SubSeq(s, 1, Len(s) - 1)) * 10 + DigitVal(s[Len(s)])

ParseOk(v) == [ok |-> TRUE, val |-> v]
ParseFail == [ok |-> FALSE, val |-> 0]

\* strconv.ParseInt(s, 10, bits) for the range lo..hi: an optional sign, then
\* one or more decimal digits; a value out of range is an error too.
ParseIntRange(s, lo, hi) ==
    LET signed == Len(s) > 0 /\ s[1] \in {"+", "-"}
        body == IF signed THEN Tail(s) ELSE s
    IN  IF ~IsDigits(body) THEN ParseFail
        ELSE LET v == IF s[1] = "-" THEN -DigitsValue(body) ELSE DigitsValue(body)
             IN  IF v < lo \/ v > hi THEN ParseFail ELSE ParseOk(v)

ParseInt64(s) == ParseIntRange(s, MinInt64, MaxInt64)
Atoi(s) == ParseIntRange(s, -MaxInt - 1, MaxInt)

\* strconv.ParseFloat(s, 64) on plain decimal text: an optional sign, digits
\* and an optional point with digits, at least one digit in all.  The value is
\* in tenths.  (ParseFloat also reads exponents, hexadecimal text and the
\* words inf and nan; no field of the model is one of those.)
ParseFloat(s) ==
    LET signed == Len(s) > 0 /\ s[1] \in {"+", "-"}
        body == IF signed THEN Tail(s) ELSE s
        dots == {k \in 1..Len(body) : body[k] = "."}
        dot == IF dots = {} THEN 0 ELSE CHOOSE k \in dots : \A j \in dots : k <= j
        ip == IF dot = 0 THEN body ELSE SubSeq(body, 1, dot - 1)
        fp == IF dot = 0 THEN <<>> ELSE SubSeq(body, dot + 1, Len(body))
        ok == /\ ip = <<>> \/ IsDigits(ip)
              /\ fp = <<>> \/ IsDigits(fp)
              /\ Len(ip) + Len(fp) > 0
        mag == DigitsValue(ip) * 10 + (IF fp = <<>> THEN 0 ELSE DigitVal(fp[1]))
    IN  IF ~ok THEN ParseFail
        ELSE ParseOk(IF s[1] = "-" THEN -mag ELSE mag)

(***************************************************************************)
(* parseCSV                                                                *)
(***************************************************************************)
validThreadCounts == {1, 10, 100, 1000}

\* if len(record) < 13
TooShort(record) == Len(record) < 13

\* err1 != nil || err2 != nil || err4 != nil, err3 forgotten: a mutant
AnyErrButBytes(t, e, b, a) == ~t.ok \/ ~e.ok \/ ~a.ok

\* if err1 != nil || err2 != nil || err3 != nil || err4 != nil
AnyErr(t, e, b, a) == ~t.ok \/ ~e.ok \/ ~b.ok \/ ~a.ok

\* if validThreadCounts[allThreads] with the test dropped: a mutant
ThreadsAny(allThreads) == TRUE

\* validThreadCounts[allThreads]
ThreadsValid(allThreads) == allThreads \in validThreadCounts

\* The loop body after a successful reader.Read(): the slice after the row.
ParseRow(record, dps) ==
    IF TooShort(record) THEN dps
    ELSE LET timeStamp == ParseInt64(record[1])
             elapsed == ParseFloat(record[2])
             sentBytes == Atoi(record[11])
             allThreads == Atoi(record[13])
         IN  IF AnyErr(timeStamp, elapsed, sentBytes, allThreads) THEN dps
             ELSE IF ~ThreadsValid(allThreads.val) THEN dps
             ELSE Append(dps, [TimeStamp |-> timeStamp.val,
                               Elapsed |-> elapsed.val,
                               SentBytes |-> sentBytes.val,
                               AllThreads |-> allThreads.val,
                               PayloadSize |-> sentBytes.val])

\* The rows of the input files of the model: a row of 12 fields, and the rows
\* of 13 fields whose four columns read are drawn from a few texts, at most one
\* of them a text its column's parser rejects.  The other columns are fixed.
TimeStampTexts == {<<"7">>, <<"x">>}
ElapsedTexts == {<<"2", ".", "5">>, <<"x">>}
SentBytesTexts == {<<"1", "0", "2", "4">>, <<"1", ".", "5">>}
AllThreadsTexts == {<<"1">>, <<"1", "0", "0", "0">>, <<"7">>, <<"x">>}

MkRecord(n, c0, c1, c10, c12) ==
    [k \in 1..n |-> IF k = 1 THEN c0
                    ELSE IF k = 2 THEN c1
                    ELSE IF k = 11 THEN c10
                    ELSE IF k = 13 THEN c12
                    ELSE <<"o">>]

Rejected(c0, c1, c10, c12) ==
    (IF ParseInt64(c0).ok THEN 0 ELSE 1) + (IF ParseFloat(c1).ok THEN 0 ELSE 1)
    + (IF Atoi(c10).ok THEN 0 ELSE 1) + (IF Atoi(c12).ok THEN 0 ELSE 1)

Records ==
    {MkRecord(12, <<"7">>, <<"2", ".", "5">>, <<"1", "0", "2", "4">>, <<"1">>)}
    \cup {MkRecord(13, t[1], t[2], t[3], t[4]) :
            t \in {u \in TimeStampTexts \X ElapsedTexts \X SentBytesTexts \X AllThreadsTexts :
                      Rejected(u[1], u[2], u[3], u[4]) <= 1}}

InitParse ==
    /\ pc = "open"
    /\ input = <<>> /\ dataPoints = <<>> /\ parseErr = "none"
    /\ size = 0 /\ stdIdx = 1 /\ minDiff = MaxInt /\ nearest = "1KB"
    /\ groups = <<>> /\ pending = {} /\ stats = <<>>
    /\ axes = [x |-> "none", y |-> "none"]
    /\ printed = <<>> /\ prevStats = <<>> /\ calls = 0
    /\ MainIdle /\ LaterIdle

\* os.Open succeeds.
\* Paths that name a directory: os.Stat and os.Open succeed on them, and every
\* read of the open directory fails (EISDIR).
Directories == {"results"}

\* The path given on the command line names a directory.
ReadingDirectory == Len(osArgs) >= 2 /\ osArgs[2] \in Directories

OpenFile ==
    /\ pc = "open"
    /\ pc' = "read"
    /\ UNCHANGED <<mainVars, laterVars, catVars, dataPoints, parseVars, statVars>>

\* os.Open fails: return nil, err.
OpenFails ==
    /\ pc = "open"
    /\ pc' = "parsed"
    /\ parseErr' = "open"
    /\ UNCHANGED <<mainVars, laterVars, catVars, dataPoints, input, statVars>>

\* reader.Read() returns a record.
ReadRecord ==
    /\ pc = "read"
    /\ ~ReadingDirectory
    /\ Len(input) < MaxRows
    /\ \E record \in Records :
        /\ input' = Append(input, [kind |-> "record", fields |-> record])
        /\ dataPoints' = ParseRow(record, dataPoints)
    /\ UNCHANGED <<mainVars, laterVars, pc, catVars, parseErr, statVars>>

\* reader.Read() returns a csv.ParseError for a line: continue.
ReadMalformedLine ==
    /\ pc = "read"
    /\ ~ReadingDirectory
    /\ Len(input) < MaxRows
    /\ input' = Append(input, [kind |-> "error", fields |-> <<>>])
    /\ UNCHANGED <<mainVars, laterVars, pc, catVars, dataPoints, parseErr, statVars>>

\* reader.Read() returns io.EOF: break, return dataPoints, nil.
ReadEOF ==
    /\ pc = "read"
    /\ ~ReadingDirectory
    /\ pc' = "parsed"
    /\ parseErr' = "nil"
    /\ UNCHANGED <<mainVars, laterVars, catVars, dataPoints, input, statVars>>

NextParse == OpenFile \/ OpenFails \/ ReadRecord \/ ReadMalformedLine \/ ReadEOF

SpecParse == InitParse /\ [][NextParse]_vars

(***************************************************************************)
(* C3.  Whatever malformed rows (a line the reader rejects, fewer than 13  *)
(* fields, or a column 0, 1, 10 or 12 that is not a number of its type)    *)
(* are interleaved with valid rows, parseCSV holds exactly the valid rows  *)
(* that pass the thread-count filter, in file order, each with the values  *)
(* of columns 0, 1, 10 and 12, and it returns no error.                    *)
(***************************************************************************)
RowValid(item) ==
    /\ item.kind = "record"
    /\ Len(item.fields) >= 13
    /\ ParseInt64(item.fields[1]).ok
    /\ ParseFloat(item.fields[2]).ok
    /\ Atoi(item.fields[11]).ok
    /\ Atoi(item.fields[13]).ok

RowKept(item) == RowValid(item) /\ Atoi(item.fields[13]).val \in {1, 10, 100, 1000}

SampleOf(item) ==
    [TimeStamp |-> ParseInt64(item.fields[1]).val,
     Elapsed |-> ParseFloat(item.fields[2]).val,
     SentBytes |-> Atoi(item.fields[11]).val,
     AllThreads |-> Atoi(item.fields[13]).val,
     PayloadSize |-> Atoi(item.fields[11]).val]

ExpectedSamples ==
    LET kept == SelectSeq(input, RowKept)
    IN  [k \in 1..Len(kept) |-> SampleOf(kept[k])]

C3_ValidRowsInOrder ==
    (pc \in {"read", "parsed"} /\ parseErr # "open") =>
        /\ dataPoints = ExpectedSamples
        /\ pc = "parsed" => parseErr = "nil"

\* A malformed row between two valid rows, both returned.
C3_Witness ==
    /\ pc = "parsed"
    /\ Len(input) = 3
    /\ RowKept(input[1]) /\ ~RowValid(input[2]) /\ RowKept(input[3])
    /\ Len(dataPoints) = 2
    /\ dataPoints[1] # dataPoints[2]

(***************************************************************************)
(* C4.  Every sample parseCSV holds has allThreads in {1, 10, 100, 1000};  *)
(* every well-formed row with such a thread count is held; a row with any  *)
(* other thread count is dropped as a malformed row is: the result and the *)
(* error are those of the file without that row.                           *)
(***************************************************************************)
C4_ThreadFilter ==
    (pc \in {"read", "parsed"} /\ parseErr # "open") =>
        /\ \A k \in 1..Len(dataPoints) :
               dataPoints[k].AllThreads \in {1, 10, 100, 1000}
        /\ Len(dataPoints) = Cardinality({k \in 1..Len(input) : RowKept(input[k])})
        /\ parseErr \in {"none", "nil"}

\* A well-formed row with thread count 7 was read and dropped, one with 1000 kept.
C4_Witness ==
    /\ pc = "parsed"
    /\ \E k \in 1..Len(input) : RowValid(input[k]) /\ ~RowKept(input[k])
    /\ \E k \in 1..Len(dataPoints) : dataPoints[k].AllThreads = 1000

(***************************************************************************)
(* float64 quotients, kept exact.                                          *)
(***************************************************************************)
Frac(n, d) == [num |-> n, den |-> d]          \* n / d, d > 0
FracEq(a, b) == a.num * b.den = b.num * a.den
FracLess(a, b) == a.num * b.den < b.num * a.den
Whole(x) == Frac(x, 1)
Sqrt(a) == [sqrtOf |-> a]                     \* math.Sqrt(a), not evaluated

RECURSIVE SumSeq(_)
SumSeq(s) == IF s = <<>> THEN 0 ELSE s[1] + SumSeq(Tail(s))

(***************************************************************************)
(* calculateStatistics                                                     *)
(***************************************************************************)
\* sort.Float64s with the call left out: a mutant
Unsorted(s) == s

RECURSIVE InsertSorted(_, _)
InsertSorted(x, s) ==
    IF s = <<>> THEN <<x>>
    ELSE IF x <= s[1] THEN <<x>> \o s
    ELSE <<s[1]>> \o InsertSorted(x, Tail(s))

RECURSIVE SortAscending(_)
SortAscending(s) ==
    IF s = <<>> THEN <<>> ELSE InsertSorted(s[1], SortAscending(Tail(s)))

\* sort.Float64s(latencies)
SortFloat64s(s) == SortAscending(s)

groupKey(dp) ==
    [threadCount |-> dp.AllThreads, sizeCategory |-> categorizeSize(dp.PayloadSize)]

\* groups[key] = []DataPoint{dp}, the earlier samples of the key lost: a mutant
GroupOverwrite(g, dp) ==
    LET key == groupKey(dp)
    IN  [k \in DOMAIN g \cup {key} |-> IF k = key THEN <<dp>> ELSE g[k]]

\* groups[key] = append(groups[key], dp)
GroupAppend(g, dp) ==
    LET key == groupKey(dp)
    IN  [k \in DOMAIN g \cup {key} |->
            IF k = key
            THEN (IF key \in DOMAIN g THEN Append(g[key], dp) ELSE <<dp>>)
            ELSE g[k]]

RECURSIVE GroupLoop(_, _, _)
GroupLoop(dps, k, g) ==
    IF k > Len(dps) THEN g ELSE GroupLoop(dps, k + 1, GroupAppend(g, dps[k]))

\* var minTime, maxTime int64 = math.MaxInt64, 0
MinTimeStart == MaxInt64
MaxTimeStart == 0

\* The loop over a group: the time span's ends, the latencies and their sum.
ScanStep(acc, dp) ==
    [minTime |-> IF dp.TimeStamp < acc.minTime THEN dp.TimeStamp ELSE acc.minTime,
     maxTime |-> IF dp.TimeStamp > acc.maxTime THEN dp.TimeStamp ELSE acc.maxTime,
     latencies |-> Append(acc.latencies, dp.Elapsed),
     sumLatency |-> acc.sumLatency + dp.Elapsed]

RECURSIVE ScanLoop(_, _, _)
ScanLoop(group, k, acc) ==
    IF k > Len(group) THEN acc ELSE ScanLoop(group, k + 1, ScanStep(acc, group[k]))

\* tps: float64(len(group)) / (float64(maxTime-minTime) / 1000.0), or 0.0
Throughput(n, minTime, maxTime) ==
    LET span == Wrap64(maxTime - minTime)
    IN  IF span > 0 THEN Frac(n * 1000, span) ELSE Whole(0)

\* latencies[(len(latencies)-1)/2], the lower middle value: a mutant
MedianLower(sorted) == sorted[((Len(sorted) - 1) \div 2) + 1]

\* latencies[len(latencies)/2]
Median(sorted) == sorted[(Len(sorted) \div 2) + 1]

\* sumLatency / float64(len(dataPoints)), the wrong length: a mutant
MeanOverAll(sumLatency, n) == Frac(sumLatency, Len(dataPoints))

\* sumLatency / float64(len(group))
Mean(sumLatency, n) == Frac(sumLatency, n)

\* math.Sqrt(variance / n), variance the sum of (lat - mean)^2: with
\* mean = m.num / m.den that is the sum of (lat * m.den - m.num)^2 over m.den^2 * n.
StdDev(latencies, m, n) ==
    Sqrt(Frac(SumSeq([k \in 1..Len(latencies) |->
                        (latencies[k] * m.den - m.num) * (latencies[k] * m.den - m.num)]),
              m.den * m.den * n))

\* The Statistics value the range loop appends for one group.
GroupStatistics(key, group) ==
    LET acc == ScanLoop(group, 1, [minTime |-> MinTimeStart, maxTime |-> MaxTimeStart,
                                   latencies |-> <<>>, sumLatency |-> 0])
        n == Len(group)
        meanLatency == Mean(acc.sumLatency, n)
        latencies == SortFloat64s(acc.latencies)
    IN  [ThreadCount |-> key.threadCount,
         SizeCategory |-> key.sizeCategory,
         TPS |-> Throughput(n, acc.minTime, acc.maxTime),
         MeanLatency |-> meanLatency,
         MedianLatency |-> Median(latencies),
         StdLatency |-> StdDev(latencies, meanLatency, n),
         MinLatency |-> latencies[1],
         MaxLatency |-> latencies[Len(latencies)],
         SampleCount |-> n]

\* The samples calculateStatistics is run on: what parseCSV can return.
SampleThreads == {1, 10}
SampleBytes == {1024, 4096}
SampleElapsed == {10, 30}
SampleTimes == {-2, 3}

Samples ==
    [TimeStamp : SampleTimes, Elapsed : SampleElapsed, SentBytes : SampleBytes,
     AllThreads : SampleThreads, PayloadSize : SampleBytes]

SampleSeqs ==
    UNION {[1..n -> {dp \in Samples : dp.PayloadSize = dp.SentBytes}] : n \in 0..MaxSamples}

Init ==
    /\ pc = "group"
    /\ dataPoints \in SampleSeqs
    /\ input = <<>> /\ parseErr = "nil"
    /\ size = 0 /\ stdIdx = 1 /\ minDiff = MaxInt /\ nearest = "1KB"
    /\ groups = <<>> /\ pending = {} /\ stats = <<>>
    /\ axes = [x |-> "none", y |-> "none"]
    /\ printed = <<>> /\ prevStats = <<>> /\ calls = 1
    /\ MainIdle /\ LaterIdle

\* The loop filling groups: for _, dp := range dataPoints.
GroupSamples ==
    /\ pc = "group"
    /\ groups' = GroupLoop(dataPoints, 1, <<>>)
    /\ pending' = DOMAIN groups'
    /\ stats' = <<>>
    /\ pc' = "range"
    /\ UNCHANGED <<mainVars, laterVars, catVars, dataPoints, parseVars, axes, printed, prevStats, calls>>

\* One iteration of for key, group := range groups: Go visits the keys of a
\* map in an order it does not specify.
RangeGroup ==
    /\ pc = "range"
    /\ \E key \in pending :
        /\ stats' = IF Len(groups[key]) = 0 THEN stats
                    ELSE Append(stats, GroupStatistics(key, groups[key]))
        /\ pending' = pending \ {key}
    /\ UNCHANGED <<mainVars, laterVars, pc, catVars, dataPoints, parseVars, groups, axes, printed,
                   prevStats, calls>>

\* return stats
ReturnStats ==
    /\ pc = "range"
    /\ pending = {}
    /\ pc' = "plot"
    /\ UNCHANGED <<mainVars, laterVars, catVars, dataPoints, parseVars, statVars>>

\* var maxTPS float64 = 0 and the loop that raises it.
RECURSIVE MaxTPSLoop(_, _, _)
MaxTPSLoop(st, k, maxTPS) ==
    IF k > Len(st) THEN maxTPS
    ELSE MaxTPSLoop(st, k + 1, IF FracLess(maxTPS, st[k].TPS) THEN st[k].TPS ELSE maxTPS)

\* maxTPS >= 100000: a mutant
ReachesLogTPS(maxTPS) == ~FracLess(maxTPS, Whole(100000))

\* maxTPS > 100000
ExceedsLogTPS(maxTPS) == FracLess(Whole(100000), maxTPS)

\* math.MaxFloat64: the fraction 1/0, which cross-multiplication puts above
\* every latency the model holds, and under which every such latency is 0 times
\* as large.
MaxFloat64 == Frac(1, 0)

\* stat.MeanLatency < minLat alone, a zero mean taken as the minimum: a mutant
BelowMinLat(m, minLat) == FracLess(m, minLat)

\* stat.MeanLatency > 0 && stat.MeanLatency < minLat
PositiveBelowMinLat(m, minLat) == m.num > 0 /\ FracLess(m, minLat)

\* var minLat, maxLat float64 = math.MaxFloat64, 0 and the loop over stats.
RECURSIVE LatRangeLoop(_, _, _)
LatRangeLoop(st, k, acc) ==
    IF k > Len(st) THEN acc
    ELSE LatRangeLoop(st, k + 1,
            [minLat |-> IF PositiveBelowMinLat(st[k].MeanLatency, acc.minLat)
                        THEN st[k].MeanLatency ELSE acc.minLat,
             maxLat |-> IF FracLess(acc.maxLat, st[k].MeanLatency)
                        THEN st[k].MeanLatency ELSE acc.maxLat])

\* minLat > 0 && maxLat/minLat > 100
WideLatRange(minLat, maxLat) ==
    minLat.num > 0 /\ maxLat.num * minLat.den > 100 * minLat.num * maxLat.den

\* plotGraph's choice of scales; an axis plot.New() made is linear.
ChooseAxes(st) ==
    LET maxTPS == MaxTPSLoop(st, 1, Whole(0))
        lat == LatRangeLoop(st, 1, [minLat |-> MaxFloat64, maxLat |-> Whole(0)])
    IN  [x |-> IF ExceedsLogTPS(maxTPS) THEN "log" ELSE "linear",
         y |-> IF WideLatRange(lat.minLat, lat.maxLat) THEN "log" ELSE "linear"]

\* plotGraph returns nil.
PlotGraph ==
    /\ pc = "plot"
    /\ axes' = ChooseAxes(stats)
    /\ pc' = "print"
    /\ UNCHANGED <<mainVars, laterVars, catVars, dataPoints, parseVars, groups, pending, stats, printed,
                   prevStats, calls>>

\* plotGraph returns an error (p.Save fails): log.Fatalf ends the process.
PlotFails ==
    /\ pc = "plot"
    /\ axes' = ChooseAxes(stats)
    /\ pc' = "fatal"
    /\ UNCHANGED <<mainVars, laterVars, catVars, dataPoints, parseVars, groups, pending, stats, printed,
                   prevStats, calls>>

\* The table lines with a line that says there is no data: a mutant
TableRowsOrNotice(st) ==
    IF st = <<>> THEN <<[ThreadCount |-> 0, SizeCategory |-> "no data", TPS |-> Whole(0),
                         MeanLatency |-> Whole(0), StdLatency |-> Sqrt(Whole(0)),
                         SampleCount |-> 0]>>
    ELSE [k \in 1..Len(st) |->
            [ThreadCount |-> st[k].ThreadCount, SizeCategory |-> st[k].SizeCategory,
             TPS |-> st[k].TPS, MeanLatency |-> st[k].MeanLatency,
             StdLatency |-> st[k].StdLatency, SampleCount |-> st[k].SampleCount]]

\* The lines of for _, stat := range stats { fmt.Printf(...) }
TableRows(st) ==
    [k \in 1..Len(st) |->
        [ThreadCount |-> st[k].ThreadCount,
         SizeCategory |-> st[k].SizeCategory,
         TPS |-> st[k].TPS,
         MeanLatency |-> st[k].MeanLatency,
         StdLatency |-> st[k].StdLatency,
         SampleCount |-> st[k].SampleCount]]

\* printStatistics: the header line, then one table row for each element of
\* stats, in slice order.
PrintStatistics ==
    /\ pc = "print"
    /\ stdout' = Append(stdout, "header")
    /\ printed' = TableRows(stats)
    /\ pc' = "done"
    /\ UNCHANGED <<osArgs, laterVars, catVars, dataPoints, parseVars, groups, pending, stats, axes,
                   prevStats, calls>>

Next ==
    GroupSamples \/ RangeGroup \/ ReturnStats \/ PlotGraph \/ PlotFails \/ PrintStatistics

Spec == Init /\ [][Next]_vars

\* A second call of calculateStatistics on the same slice, the first result kept.
CallAgain ==
    /\ pc = "plot"
    /\ calls = 1
    /\ prevStats' = stats
    /\ calls' = 2
    /\ pc' = "group"
    /\ UNCHANGED <<mainVars, laterVars, catVars, dataPoints, parseVars, groups, pending, stats, axes, printed>>

NextRerun == Next \/ CallAgain

SpecRerun == Init /\ [][NextRerun]_vars

(***************************************************************************)
(* What the claims about the aggregator speak of.                          *)
(***************************************************************************)
\* calculateStatistics has just returned: stats is its result.
Returned == pc = "plot"

\* The key of the k-th sample: its thread count and the category of its size.
CategoryOf == [b \in SampleBytes |-> categorizeSize(b)]
KeyOf(k) == [threadCount |-> dataPoints[k].AllThreads,
             sizeCategory |-> CategoryOf[dataPoints[k].PayloadSize]]

Rows == 1..Len(stats)
RowKey(r) == [threadCount |-> stats[r].ThreadCount, sizeCategory |-> stats[r].SizeCategory]

\* The positions in dataPoints of the samples of a key, and their elapsed times.
Members(key) == {k \in 1..Len(dataPoints) : KeyOf(k) = key}
ElapsedOf(key) == {dataPoints[k].Elapsed : k \in Members(key)}

(***************************************************************************)
(* C2.  In every row, throughput is sampleCount / ((maxTimestamp -         *)
(* minTimestamp) / 1000) for the largest and smallest time stamps present  *)
(* in the group, and 0 when that span is <= 0 (so 0 when all samples share *)
(* one time stamp), for every int64 time stamp the parser accepts.         *)
(***************************************************************************)
TrueSpan(key) ==
    LET ts == {dataPoints[k].TimeStamp : k \in Members(key)}
    IN  (CHOOSE hi \in ts : \A t \in ts : t <= hi)
        - (CHOOSE lo \in ts : \A t \in ts : lo <= t)

C2_ThroughputFromObservedSpan ==
    Returned =>
        \A r \in Rows :
            IF TrueSpan(RowKey(r)) <= 0
            THEN stats[r].TPS.num = 0
            ELSE FracEq(stats[r].TPS,
                        Frac(stats[r].SampleCount * 1000, TrueSpan(RowKey(r))))

(***************************************************************************)
(* C5.  calculateStatistics returns exactly one row for each distinct      *)
(* (allThreads, size category) pair among its samples and no other row;    *)
(* a row's SampleCount is the number of samples of its pair, so it is at   *)
(* least 1 and the SampleCounts add up to the number of samples.           *)
(***************************************************************************)
C5_OneRowPerPair ==
    Returned =>
        /\ \A k \in 1..Len(dataPoints) :
               Cardinality({r \in Rows : RowKey(r) = KeyOf(k)}) = 1
        /\ \A r \in Rows :
               /\ Members(RowKey(r)) # {}
               /\ stats[r].SampleCount = Cardinality(Members(RowKey(r)))
               /\ stats[r].SampleCount >= 1
        /\ SumSeq([r \in Rows |-> stats[r].SampleCount]) = Len(dataPoints)

\* Two rows, one of them of two samples that another sample lies between.
C5_Witness ==
    /\ Returned
    /\ Len(stats) = 2
    /\ \E r \in Rows : stats[r].SampleCount = 2
    /\ Len(dataPoints) = 3
    /\ KeyOf(1) = KeyOf(3)
    /\ KeyOf(1) # KeyOf(2)

C7_MedianIsUpperMiddle ==
    Returned =>
        \A r \in Rows :
            LET mem == Members(RowKey(r))
                half == Cardinality(mem) \div 2
                med == stats[r].MedianLatency
            IN  /\ Cardinality({k \in mem : dataPoints[k].Elapsed < med}) <= half
                /\ Cardinality({k \in mem : dataPoints[k].Elapsed <= med}) > half

\* A group of two samples with different elapsed times: the median is the larger.
C7_Witness ==
    /\ Returned
    /\ \E r \in Rows :
        /\ stats[r].SampleCount = 2
        /\ stats[r].MinLatency < stats[r].MaxLatency
        /\ stats[r].MedianLatency = stats[r].MaxLatency

C9_PrintedAscendingThreads ==
    pc = "done" =>
        \A j, k \in 1..Len(printed) :
            j < k => printed[j].ThreadCount <= printed[k].ThreadCount

(***************************************************************************)
(* C10.  Two calls of calculateStatistics on the same samples return       *)
(* identical rows.                                                         *)
(***************************************************************************)
C10_SameRowsOnSecondCall ==
    (calls = 2 /\ Returned) => stats = prevStats

(***************************************************************************)
(* plotGraph on the rows calculateStatistics returns for groups that are   *)
(* large enough to bring the throughput to the threshold of the X axis.    *)
(***************************************************************************)
MaxPlotRows == 3    \* aggregate rows handed to plotGraph

\* The thread count of the k-th row: the rows of a result differ in their key.
PlotThreads == <<1, 10, 100, 1000, 1, 10, 100>>
PlotBytes == <<1024, 1024, 1024, 1024, 4096, 4096, 4096>>

\* <<n, e>>: a group of n samples of e tenths of a millisecond each, the first
\* at time 0 and the others at time 1.  One sample gives a throughput of 0,
\* 100 samples give 100000 and 101 give 101000.
PlotShapes == {<<1, 0>>, <<1, 1>>, <<1, 101>>, <<100, 1>>, <<100, 100>>, <<101, 1>>}

PlotGroup(k, n, e) ==
    [j \in 1..n |-> [TimeStamp |-> IF j = 1 THEN 0 ELSE 1, Elapsed |-> e,
                     SentBytes |-> PlotBytes[k], AllThreads |-> PlotThreads[k],
                     PayloadSize |-> PlotBytes[k]]]

\* The row calculateStatistics appends for PlotGroup(k, n, e): its time span
\* runs from 0 to 1 (or to 0 for a single sample), its latencies are n times
\* e, their sum is n * e and their deviations from the mean are 0.
PlotRow(k, n, e) ==
    LET key == groupKey(PlotGroup(k, 1, e)[1])
        meanLatency == Mean(n * e, n)
    IN  [ThreadCount |-> key.threadCount,
         SizeCategory |-> key.sizeCategory,
         TPS |-> Throughput(n, 0, IF n > 1 THEN 1 ELSE 0),
         MeanLatency |-> meanLatency,
         MedianLatency |-> e,
         StdLatency |-> Sqrt(Frac(0, meanLatency.den * meanLatency.den * n)),
         MinLatency |-> e,
         MaxLatency |-> e,
         SampleCount |-> n]

PlotRowOf == [k \in 1..Len(PlotThreads), sh \in PlotShapes |-> PlotRow(k, sh[1], sh[2])]

RECURSIVE PlotSamples(_, _)
PlotSamples(f, k) ==
    IF k = 0 THEN <<>> ELSE PlotSamples(f, k - 1) \o PlotGroup(k, f[k][1], f[k][2])

\* calculateStatistics has returned one row for each of up to MaxPlotRows groups.
InitPlot ==
    /\ pc = "plot"
    /\ \E n \in 0..MaxPlotRows : \E f \in [1..n -> PlotShapes] :
        /\ dataPoints = PlotSamples(f, n)
        /\ groups = [key \in {groupKey(PlotGroup(k, 1, 0)[1]) : k \in 1..n} |->
                        LET k == CHOOSE j \in 1..n : groupKey(PlotGroup(j, 1, 0)[1]) = key
                        IN  PlotGroup(k, f[k][1], f[k][2])]
        /\ stats = [k \in 1..n |-> PlotRowOf[k, f[k]]]
    /\ input = <<>> /\ parseErr = "nil"
    /\ size = 0 /\ stdIdx = 1 /\ minDiff = MaxInt /\ nearest = "1KB"
    /\ pending = {}
    /\ axes = [x |-> "none", y |-> "none"]
    /\ printed = <<>> /\ prevStats = <<>> /\ calls = 1
    /\ MainIdle /\ LaterIdle

NextPlot == PlotGraph \/ PlotFails \/ PrintStatistics

SpecPlot == InitPlot /\ [][NextPlot]_vars

\* plotGraph has chosen its scales.
ScalesChosen == axes.x # "none"

PositiveMeans == {r \in Rows : stats[r].MeanLatency.num > 0}
SmallestPositiveMean(lo) ==
    /\ lo \in PositiveMeans
    /\ \A r \in PositiveMeans :
          stats[lo].MeanLatency.num * stats[r].MeanLatency.den
              <= stats[r].MeanLatency.num * stats[lo].MeanLatency.den
LargestMean(hi) ==
    /\ hi \in Rows
    /\ \A r \in Rows :
          stats[r].MeanLatency.num * stats[hi].MeanLatency.den
              <= stats[hi].MeanLatency.num * stats[r].MeanLatency.den

\* C12: the Y axis is logarithmic exactly when the largest mean latency is more
\* than 100 times the smallest mean latency above 0; rows with a mean of 0 do
\* not count for the smallest, and with no positive mean the axis is linear.
C12_YLogIffRangeOver100 ==
    ScalesChosen =>
        /\ axes.y \in {"log", "linear"}
        /\ axes.y = "log" <=>
              \E lo, hi \in Rows :
                  /\ SmallestPositiveMean(lo)
                  /\ LargestMean(hi)
                  /\ stats[hi].MeanLatency.num * stats[lo].MeanLatency.den
                         > 100 * stats[lo].MeanLatency.num * stats[hi].MeanLatency.den

\* plotGraph took the logarithmic Y axis for rows with means 0, 0.1 and 10.1 ms.
C12_Witness ==
    /\ ScalesChosen
    /\ axes.y = "log"
    /\ \E r \in Rows : stats[r].MeanLatency.num = 0
    /\ PositiveMeans # {}

(***************************************************************************)
(* main: the command line, the file check, parseCSV, calculateStatistics,  *)
(* plotGraph and printStatistics in turn.                                  *)
(***************************************************************************)
\* The files of the directory the analyzer is started in.
ExistingFiles == {"data.csv"} \cup Directories
CommandLines ==
    {<<"analysis">>, <<"analysis", "data.csv">>, <<"analysis", "missing.csv">>,
     <<"analysis", "results">>}

\* os.IsNotExist(err) never true: a mutant
IsNotExistNever(csvFile) == FALSE

\* _, err := os.Stat(csvFile); os.IsNotExist(err)
IsNotExist(csvFile) == csvFile \notin ExistingFiles

\* The status the process ends with: 0 when main returns, 1 from os.Exit(1)
\* and from log.Fatalf; -1 while it runs.
ExitCode ==
    IF pc = "done" THEN 0
    ELSE IF pc \in {"usage", "notfound", "fatal"} THEN 1
    ELSE -1

InitMain ==
    /\ pc = "main"
    /\ osArgs \in CommandLines
    /\ stdout = <<>>
    /\ input = <<>> /\ dataPoints = <<>> /\ parseErr = "none"
    /\ size = 0 /\ stdIdx = 1 /\ minDiff = MaxInt /\ nearest = "1KB"
    /\ groups = <<>> /\ pending = {} /\ stats = <<>>
    /\ axes = [x |-> "none", y |-> "none"]
    /\ printed = <<>> /\ prevStats = <<>> /\ calls = 0
    /\ LaterIdle

\* len(os.Args) < 2: the usage lines and os.Exit(1).
Usage ==
    /\ pc = "main"
    /\ Len(osArgs) < 2
    /\ stdout' = Append(stdout, "Usage")
    /\ pc' = "usage"
    /\ UNCHANGED <<osArgs, laterVars, catVars, dataPoints, parseVars, statVars>>

\* The check that the file exists: os.Exit(1) when it does not, parseCSV else.
StatFile ==
    /\ pc = "main"
    /\ Len(osArgs) >= 2
    /\ IF IsNotExist(osArgs[2])
       THEN stdout' = Append(stdout, "File not found") /\ pc' = "notfound"
       ELSE stdout' = stdout /\ pc' = "open"
    /\ UNCHANGED <<osArgs, laterVars, catVars, dataPoints, parseVars, statVars>>

\* reader.Read() returns the error of a failed read of the file: continue, as
\* for every error that is not io.EOF.  The next call reads the file again.
ReadIOError ==
    /\ pc = "read"
    /\ ~ReadingDirectory
    /\ Len(input) < MaxRows
    /\ input' = Append(input, [kind |-> "ioerror", fields |-> <<>>])
    /\ UNCHANGED <<mainVars, laterVars, pc, catVars, dataPoints, parseErr, statVars>>

\* reader.Read() on an open directory: the read fails and the reader returns
\* the error, which is not io.EOF.  The history keeps the first MaxRows
\* results.
ReadDirectory ==
    /\ pc = "read"
    /\ ReadingDirectory
    /\ input' = IF Len(input) < MaxRows
                THEN Append(input, [kind |-> "ioerror", fields |-> <<>>])
                ELSE input
    /\ pc' = "continue"
    /\ UNCHANGED <<mainVars, laterVars, catVars, dataPoints, parseErr, statVars>>

\* if err != nil { continue }: back to reader.Read(), which reads the
\* directory again
ContinueLoop ==
    /\ pc = "continue"
    /\ pc' = "read"
    /\ UNCHANGED <<mainVars, laterVars, catVars, dataPoints, parseVars, statVars>>

\* parseCSV has returned: log.Fatalf on an error, calculateStatistics else.
CheckParseErr ==
    /\ pc = "parsed"
    /\ IF parseErr # "nil"
       THEN pc' = "fatal" /\ calls' = calls
       ELSE pc' = "group" /\ calls' = 1
    /\ UNCHANGED <<mainVars, laterVars, catVars, dataPoints, parseVars, groups, pending,
                   stats, axes, printed, prevStats>>

NextMain ==
    \/ Usage \/ StatFile
    \/ OpenFile \/ OpenFails \/ ReadRecord \/ ReadMalformedLine \/ ReadIOError \/ ReadEOF
    \/ ReadDirectory \/ ContinueLoop
    \/ CheckParseErr
    \/ GroupSamples \/ RangeGroup \/ ReturnStats
    \/ PlotGraph \/ PlotFails \/ PrintStatistics

SpecMain == InitMain /\ [][NextMain]_vars

\* The process runs its next statement whenever there is one; what the reader
\* returns is not up to the program.
SpecMainFair == SpecMain /\ WF_vars(NextMain)

\* parseCSV returned without an error and without a sample.
NoSampleSurvived == parseErr = "nil" /\ dataPoints = <<>>

\* C13: when parseCSV returns no sample, calculateStatistics returns no row
\* and does not end the run; the run goes on to plotGraph and, unless the image
\* cannot be saved, to printStatistics, which writes the header and no row;
\* main then returns and the exit code is 0.
C13_EmptyRunPrintsHeaderOnly ==
    NoSampleSurvived =>
        /\ pc \in {"parsed", "group", "range", "plot", "print", "done", "fatal"}
        /\ stats = <<>>
        /\ pc = "fatal" => axes.x # "none"
        /\ pc \notin {"done", "fatal"} => ExitCode = -1
        /\ pc = "done" => /\ stdout = <<"header">>
                          /\ printed = <<>>
                          /\ ExitCode = 0

\* A file with a header line, a malformed line and a row of 7 threads was
\* read to its end and the run is over.
C13_Witness ==
    /\ NoSampleSurvived
    /\ pc = "done"
    /\ Len(input) = 3
    /\ \E k \in 1..3 : input[k].kind = "record" /\ ~RowValid(input[k])
    /\ \E k \in 1..3 : input[k].kind = "error"
    /\ \E k \in 1..3 : RowValid(input[k]) /\ ~RowKept(input[k])

\* The command line names a file that does not exist.
FileMissing == Len(osArgs) >= 2 /\ osArgs[2] \notin ExistingFiles

\* C14: when the named file does not exist, main writes the file-not-found
\* line and exits with code 1; the file is not opened, no record is read, no
\* row is computed, no scale is chosen and no table line is written.
C14_MissingFileStopsBeforeParsing ==
    FileMissing =>
        /\ pc \in {"main", "notfound"}
        /\ input = <<>> /\ dataPoints = <<>> /\ parseErr = "none"
        /\ groups = <<>> /\ stats = <<>> /\ calls = 0
        /\ axes = [x |-> "none", y |-> "none"]
        /\ printed = <<>>
        /\ pc = "notfound" => stdout = <<"File not found">> /\ ExitCode = 1

C14_Witness == FileMissing /\ pc = "notfound"

\* plotGraph returned an error and log.Fatalf ended the process.
RenderFailed == pc = "fatal" /\ parseErr = "nil"

\* C15: a render failure ends the run with a nonzero exit code, and the table
\* of the rows computed is printed all the same.
C15_TablePrintedOnRenderFailure ==
    RenderFailed =>
        /\ ExitCode # 0
        /\ stdout = <<"header">>
        /\ printed = TableRows(stats)

\* C16: an I/O error returned by reader.Read() is the last thing parseCSV
\* reads, and the run neither returns samples nor goes on to compute, draw or
\* print after it.
C16_IOErrorAbortsRun ==
    \A k \in 1..Len(input) :
        input[k].kind = "ioerror" =>
            /\ k = Len(input)
            /\ pc \in {"read", "fatal"}
            /\ pc = "fatal" => parseErr \notin {"none", "nil"}

(***************************************************************************)
(* The percentile mode of the analyzer, for one group.  Its code is not    *)
(* among the sources; it is modelled from the specification (4.4): sort    *)
(* the latencies ascending, P_k = sorted[floor(n * k)] for k = 0.50, 0.75  *)
(* and 0.90.                                                               *)
(***************************************************************************)
MaxPctSamples == 4      \* latencies of the group

\* floor((n - 1) * k): a mutant
PercentileIndexOfLast(n, pct) == ((n - 1) * pct) \div 100

\* floor(n * k) for k = pct / 100
PercentileIndex(n, pct) == (n * pct) \div 100

\* sorted[floor(n * k)], the index counted from 0
Percentile(sorted, pct) == sorted[PercentileIndex(Len(sorted), pct) + 1]

PctElapsed == {10, 20, 30}
PctScenario == [k \in 1..10 |-> 10 * k]
PctInputs ==
    {PctScenario, [k \in 1..10 |-> 10 * (11 - k)]}
    \cup UNION {[1..n -> PctElapsed] : n \in 1..MaxPctSamples}

InitPercentiles ==
    /\ pc = "percentiles"
    /\ pctLatencies \in PctInputs
    /\ pctSorted = <<>> /\ pctRow = NoRow
    /\ input = <<>> /\ dataPoints = <<>> /\ parseErr = "none"
    /\ size = 0 /\ stdIdx = 1 /\ minDiff = MaxInt /\ nearest = "1KB"
    /\ groups = <<>> /\ pending = {} /\ stats = <<>>
    /\ axes = [x |-> "none", y |-> "none"]
    /\ printed = <<>> /\ prevStats = <<>> /\ calls = 0
    /\ MainIdle /\ HttpIdle /\ SuiteIdle /\ OpsIdle

\* Sort latencies ascending.
PercentileSort ==
    /\ pc = "percentiles"
    /\ pctSorted' = SortAscending(pctLatencies)
    /\ pc' = "sorted"
    /\ UNCHANGED <<mainVars, opsVars, httpVars, suiteVars, pctLatencies, pctRow, catVars, dataPoints, parseVars,
                   statVars>>

\* The PercentileRow of the group: P50, P75, P90 and the sample count.
PercentileRow ==
    /\ pc = "sorted"
    /\ pctRow' = [P50 |-> Percentile(pctSorted, 50),
                  P75 |-> Percentile(pctSorted, 75),
                  P90 |-> Percentile(pctSorted, 90),
                  SampleCount |-> Len(pctSorted)]
    /\ pc' = "percentileRow"
    /\ UNCHANGED <<mainVars, opsVars, httpVars, suiteVars, pctLatencies, pctSorted, catVars, dataPoints, parseVars,
                   statVars>>

NextPercentiles == PercentileSort \/ PercentileRow

SpecPercentiles == InitPercentiles /\ [][NextPercentiles]_vars

\* The element at index i (from 0) of the latencies in ascending order: the
\* value with at most i latencies below it and more than i not above it.
RankValue(i) ==
    CHOOSE v \in {pctLatencies[k] : k \in 1..Len(pctLatencies)} :
        /\ Cardinality({k \in 1..Len(pctLatencies) : pctLatencies[k] < v}) <= i
        /\ Cardinality({k \in 1..Len(pctLatencies) : pctLatencies[k] <= v}) > i

\* C17: for a group of n >= 1 latencies, P50, P75 and P90 are the elements of
\* the ascending order at the indices floor(n * 0.50), floor(n * 0.75) and
\* floor(n * 0.90), each index within 0..n-1, and min <= P50 <= P75 <= P90 <=
\* max; for 10, 20, ..., 100 they are 60, 80 and 100.
C17_PercentileByIndex ==
    pc = "percentileRow" =>
        LET n == Len(pctLatencies)
            all == {pctLatencies[k] : k \in 1..n}
        IN  /\ n >= 1 /\ pctRow.SampleCount = n
            /\ \A pct \in {50, 75, 90} : (n * pct) \div 100 \in 0..(n - 1)
            /\ pctRow.P50 = RankValue((n * 50) \div 100)
            /\ pctRow.P75 = RankValue((n * 75) \div 100)
            /\ pctRow.P90 = RankValue((n * 90) \div 100)
            /\ \A v \in all : RankValue(0) <= v /\ v <= RankValue(n - 1)
            /\ RankValue(0) <= pctRow.P50 /\ pctRow.P50 <= pctRow.P75
            /\ pctRow.P75 <= pctRow.P90 /\ pctRow.P90 <= RankValue(n - 1)
            /\ all = {10 * k : k \in 1..10} /\ n = 10 =>
                  pctRow.P50 = 60 /\ pctRow.P75 = 80 /\ pctRow.P90 = 100

\* The row of the latencies 100, 90, ..., 10 has been computed.
C17_Witness ==
    /\ pc = "percentileRow"
    /\ pctLatencies = [k \in 1..10 |-> 10 * (11 - k)]
    /\ pctRow.P50 = 60

(***************************************************************************)
(* The sleep service: rest-api-app/main.go on net/http and its fasthttp    *)
(* variant.  One request is given to both and each answers it.  A float64  *)
(* is a number of hundredths of a second, NaN or an infinity.              *)
(***************************************************************************)
Num(v) == [kind |-> "num", val |-> v]
NaN == [kind |-> "nan", val |-> 0]
Inf(sign) == [kind |-> "inf", val |-> sign]

\* sleepTime < 0 and sleepTime > 60: both false for NaN
Negative(x) == x.kind # "nan" /\ x.val < 0
Above60(x) == (x.kind = "num" /\ x.val > 6000) \/ (x.kind = "inf" /\ x.val > 0)

\* strconv.ParseFloat(s, 64) on the texts of the model: the words NaN and Inf
\* (Inf with an optional sign), and plain decimal text as in ParseFloat above,
\* here read to two decimal places.
ParseFloat64(s) ==
    LET signed == Len(s) > 0 /\ s[1] \in {"+", "-"}
        body == IF signed THEN Tail(s) ELSE s
        dots == {k \in 1..Len(body) : body[k] = "."}
        dot == IF dots = {} THEN 0 ELSE CHOOSE k \in dots : \A j \in dots : k <= j
        ip == IF dot = 0 THEN body ELSE SubSeq(body, 1, dot - 1)
        fp == IF dot = 0 THEN <<>> ELSE SubSeq(body, dot + 1, Len(body))
        ok == /\ ip = <<>> \/ IsDigits(ip)
              /\ fp = <<>> \/ IsDigits(fp)
              /\ Len(ip) + Len(fp) > 0
        mag == DigitsValue(ip) * 100
                 + (IF Len(fp) >= 1 THEN DigitVal(fp[1]) * 10 ELSE 0)
                 + (IF Len(fp) >= 2 THEN DigitVal(fp[2]) ELSE 0)
    IN  IF s \in {<<"N", "a", "N">>, <<"n", "a", "n">>} THEN ParseOk(NaN)
        ELSE IF body \in {<<"I", "n", "f">>, <<"i", "n", "f">>}
             THEN ParseOk(Inf(IF s[1] = "-" THEN -1 ELSE 1))
        ELSE IF ~ok THEN [ok |-> FALSE, val |-> NaN]
        ELSE ParseOk(Num(IF s[1] = "-" THEN -mag ELSE mag))

\* sleepTime := 0.03
DefaultSleepTime == Num(3)

ErrorResponse(msg) == [error |-> msg, detail |-> ""]
NoSleep == [called |-> FALSE, time |-> Num(0)]
Answer(code, msg) == [status |-> code, body |-> ErrorResponse(msg), slept |-> NoSleep]

\* time.Sleep(sleepTime) and the ProcessResponse.  Both encoders refuse a NaN:
\* Encode returns an error that the handler drops, nothing is written, and the
\* server sends the status 200 with an empty body.
ProcessResponse(sleepTime, payloadSize) ==
    [status |-> 200,
     body |-> IF sleepTime.kind = "nan" THEN [empty |-> TRUE]
              ELSE [status |-> "success", message |-> "JSON validated and processed",
                    sleep_time |-> sleepTime, payload_size |-> payloadSize],
     slept |-> [called |-> TRUE, time |-> sleepTime]]

\* The checks both handlers make once sleepTime is known; decoder names the
\* package whose error text follows "Invalid JSON: ".
ValidateAndProcess(req, sleepTime, decoder) ==
    IF Negative(sleepTime) THEN Answer(400, "sleep_time must be non-negative")
    ELSE IF Above60(sleepTime) THEN Answer(400, "sleep_time cannot exceed 60 seconds")
    ELSE IF req.contentType # "application/json"
         THEN Answer(400, "Content-Type must be application/json")
    ELSE IF req.body.json = "unreadable" /\ decoder = "encoding/json"
         THEN Answer(400, "Failed to read request body")
    ELSE IF req.body.json # "valid"
         THEN [status |-> 400, body |-> [error |-> "Invalid JSON", detail |-> decoder],
               slept |-> NoSleep]
    ELSE ProcessResponse(sleepTime, req.body.size)

\* processHandler of rest-api-app/main.go: r.URL.Query().Get gives "" for a
\* parameter that is absent and for one that is present and empty.
NetProcessHandler(req) ==
    IF req.method # "POST" THEN Answer(405, "Method not allowed")
    ELSE LET sleepTimeStr == IF req.sleep_time.present THEN req.sleep_time.text ELSE <<>>
             parsed == ParseFloat64(sleepTimeStr)
         IN  IF sleepTimeStr # <<>> /\ ~parsed.ok
             THEN Answer(400, "Invalid sleep_time parameter")
             ELSE ValidateAndProcess(req,
                     IF sleepTimeStr # <<>> THEN parsed.val ELSE DefaultSleepTime,
                     "encoding/json")

HealthResponse == [status |-> 200, body |-> [status |-> "healthy"], slept |-> NoSleep]
RootResponse(version) ==
    [status |-> 200, body |-> [service |-> "REST API Sleep Service", version |-> version],
     slept |-> NoSleep]

\* The routes of http.HandleFunc: the pattern "/" takes every other path.
NetServeMux(req) ==
    IF req.path = "/health" THEN HealthResponse
    ELSE IF req.path = "/api/process" THEN NetProcessHandler(req)
    ELSE RootResponse("2.0.0")

\* processHandler of the fasthttp variant: Peek gives nil for an absent
\* parameter; for a present and empty one it gives the argument's value buffer
\* cut to length 0, which is nil in a request context used for the first time
\* and not nil in a reused one.
FastProcessHandler(req, reused) ==
    IF req.method # "POST" THEN Answer(405, "Method not allowed")
    ELSE LET isNil == ~req.sleep_time.present \/ (req.sleep_time.text = <<>> /\ ~reused)
             parsed == ParseFloat64(req.sleep_time.text)
         IN  IF ~isNil /\ ~parsed.ok
             THEN Answer(400, "Invalid sleep_time parameter")
             ELSE ValidateAndProcess(req,
                     IF ~isNil THEN parsed.val ELSE DefaultSleepTime,
                     "json-iterator")

\* requestHandler: the switch on the path, 404 by default.
requestHandler(req, reused) ==
    IF req.path = "/health" THEN HealthResponse
    ELSE IF req.path = "/api/process" THEN FastProcessHandler(req, reused)
    ELSE IF req.path = "/" THEN RootResponse("3.0.0-ultra")
    ELSE Answer(404, "Not found")

\* The requests: four paths, two methods, a sleep_time that is absent, empty
\* or one of eight texts, two content types and three bodies.
Paths == {"/api/process", "/health", "/", "/status"}
Methods == {"POST", "GET"}
InRangeTexts == {<<"0">>, <<"2", ".", "5">>, <<"6", "0">>}
SleepTexts ==
    InRangeTexts \cup {<<>>, <<"6", "0", ".", "0", "1">>, <<"-", "0", ".", "0", "1">>,
                       <<"x">>, <<"N", "a", "N">>, <<"I", "n", "f">>}
SleepTimes ==
    {[present |-> FALSE, text |-> <<>>]} \cup {[present |-> TRUE, text |-> t] : t \in SleepTexts}
ContentTypes == {"application/json", "text/plain"}
Bodies == {[json |-> "valid", size |-> 2], [json |-> "invalid", size |-> 1],
           [json |-> "invalid", size |-> 0]}
Requests ==
    [path : Paths, method : Methods, sleep_time : SleepTimes, contentType : ContentTypes,
     body : Bodies]

InitHttp ==
    /\ pc = "listen"
    /\ HttpIdle
    /\ input = <<>> /\ dataPoints = <<>> /\ parseErr = "none"
    /\ size = 0 /\ stdIdx = 1 /\ minDiff = MaxInt /\ nearest = "1KB"
    /\ groups = <<>> /\ pending = {} /\ stats = <<>>
    /\ axes = [x |-> "none", y |-> "none"]
    /\ printed = <<>> /\ prevStats = <<>> /\ calls = 0
    /\ MainIdle /\ PctIdle /\ SuiteIdle /\ OpsIdle

\* A client sends the same request to both services.
SendRequest ==
    /\ pc = "listen"
    /\ request' \in Requests
    /\ pc' = "serve"
    /\ UNCHANGED <<mainVars, opsVars, pctVars, suiteVars, netOutcome, fastOutcome, catVars, dataPoints, parseVars,
                   statVars>>

\* The net/http service answers.
NetServe ==
    /\ pc = "serve"
    /\ netOutcome = NotServed
    /\ netOutcome' = NetServeMux(request)
    /\ UNCHANGED <<mainVars, opsVars, pctVars, suiteVars, pc, request, fastOutcome, catVars, dataPoints, parseVars,
                   statVars>>

\* The fasthttp service answers.
FastServe ==
    /\ pc = "serve"
    /\ fastOutcome = NotServed
    /\ \E reused \in BOOLEAN : fastOutcome' = requestHandler(request, reused)
    /\ UNCHANGED <<mainVars, opsVars, pctVars, suiteVars, pc, request, netOutcome, catVars, dataPoints, parseVars,
                   statVars>>

NextHttp == SendRequest \/ NetServe \/ FastServe

SpecHttp == InitHttp /\ [][NextHttp]_vars

\* The request is a POST to /api/process.
ProcessPost == request # NoRequest /\ request.path = "/api/process" /\ request.method = "POST"

\* The sleep_time of the request is absent, or a number from 0 to 60.
SleepTimeAcceptable == ~request.sleep_time.present \/ request.sleep_time.text \in InRangeTexts

\* What a service does with sleep_time according to the claim.
SleepTimeValidated(outcome) ==
    (ProcessPost /\ outcome # NotServed) =>
        /\ (outcome.slept.called \/ outcome.status = 200) => SleepTimeAcceptable
        /\ ~SleepTimeAcceptable => outcome.status = 400 /\ ~outcome.slept.called
        /\ (outcome.status = 200 /\ ~request.sleep_time.present) =>
              outcome.body.sleep_time = DefaultSleepTime

\* C18: POST /api/process sleeps and answers with success only when sleep_time
\* is absent (then 0.03) or a number from 0 to 60; every other sleep_time
\* value is answered with 400 and no sleep.  Stated of both services.
C18_SleepTimeValidated == SleepTimeValidated(netOutcome) /\ SleepTimeValidated(fastOutcome)

\* C19: the two services give every request the same status and the same body.
C19_SameAnswer ==
    (netOutcome # NotServed /\ fastOutcome # NotServed) =>
        /\ netOutcome.status = fastOutcome.status
        /\ netOutcome.body = fastOutcome.body

(***************************************************************************)
(* The test suites: main of run-all-tests.sh and of run-stepping-test.sh.  *)
(* Both scripts run under set -e; run_test and run_stepping_test are       *)
(* called as the condition of an if, where set -e has no effect.           *)
(***************************************************************************)
\* The test matrix of run-all-tests.sh: payload_size iteration threads (the
\* sleep_time of every entry is 0.03).  A payload size is kept as the word the
\* script holds.
tests == <<
    [payload_size |-> "1024", iteration |-> 1, threads |-> 1],
    [payload_size |-> "1024", iteration |-> 2, threads |-> 10],
    [payload_size |-> "1024", iteration |-> 3, threads |-> 100],
    [payload_size |-> "1024", iteration |-> 4, threads |-> 1000],
    [payload_size |-> "4096", iteration |-> 1, threads |-> 1],
    [payload_size |-> "4096", iteration |-> 2, threads |-> 10],
    [payload_size |-> "4096", iteration |-> 3, threads |-> 100],
    [payload_size |-> "4096", iteration |-> 4, threads |-> 1000],
    [payload_size |-> "51200", iteration |-> 1, threads |-> 1],
    [payload_size |-> "51200", iteration |-> 2, threads |-> 10],
    [payload_size |-> "51200", iteration |-> 3, threads |-> 100],
    [payload_size |-> "51200", iteration |-> 4, threads |-> 1000],
    [payload_size |-> "204800", iteration |-> 1, threads |-> 1],
    [payload_size |-> "819200", iteration |-> 2, threads |-> 10],
    [payload_size |-> "1327200", iteration |-> 3, threads |-> 100],
    [payload_size |-> "13107200", iteration |-> 4, threads |-> 1000],
    [payload_size |-> "52428800", iteration |-> 1, threads |-> 1],
    [payload_size |-> "209715200", iteration |-> 2, threads |-> 10],
    [payload_size |-> "838860800", iteration |-> 3, threads |-> 100],
    [payload_size |-> "3355443200", iteration |-> 4, threads |-> 1000],
    [payload_size |-> "1048576", iteration |-> 1, threads |-> 1],
    [payload_size |-> "1048576", iteration |-> 2, threads |-> 10],
    [payload_size |-> "1048576", iteration |-> 3, threads |-> 100],
    [payload_size |-> "1048576", iteration |-> 4, threads |-> 1000],
    [payload_size |-> "2097152", iteration |-> 1, threads |-> 1],
    [payload_size |-> "2097152", iteration |-> 2, threads |-> 10],
    [payload_size |-> "2097152", iteration |-> 3, threads |-> 100],
    [payload_size |-> "2097152", iteration |-> 4, threads |-> 1000],
    [payload_size |-> "5242880", iteration |-> 1, threads |-> 1],
    [payload_size |-> "5242880", iteration |-> 2, threads |-> 10],
    [payload_size |-> "5242880", iteration |-> 3, threads |-> 100],
    [payload_size |-> "5242880", iteration |-> 4, threads |-> 1000]>>

\* The payload sizes of the full suite of run-stepping-test.sh.
payload_sizes == <<"1024", "4096", "51200", "204800", "1048576", "2097152", "5242880">>

\* The entries the script started loops over.
Matrix(script) == IF script = "run-all-tests.sh" THEN tests ELSE payload_sizes
total_tests == Len(Matrix(invocation.script))

\* The exit statuses of JMeter the model tries.
JMeterStatuses == {0, 1, 137}

Invocations ==
    {[script |-> "run-all-tests.sh", PAYLOAD_SIZE_ARG |-> "", jmeter |-> j] : j \in BOOLEAN}
    \cup {[script |-> "run-stepping-test.sh", PAYLOAD_SIZE_ARG |-> a, jmeter |-> j] :
            a \in {"", "1024"}, j \in BOOLEAN}

InitSuite ==
    /\ pc = "check_jmeter"
    /\ invocation \in Invocations
    /\ current_test = 0 /\ failed_tests = 0 /\ attempted = <<>>
    /\ returns = NoReturns /\ summary = NoSummary /\ exitStatus = -1
    /\ input = <<>> /\ dataPoints = <<>> /\ parseErr = "none"
    /\ size = 0 /\ stdIdx = 1 /\ minDiff = MaxInt /\ nearest = "1KB"
    /\ groups = <<>> /\ pending = {} /\ stats = <<>>
    /\ axes = [x |-> "none", y |-> "none"]
    /\ printed = <<>> /\ prevStats = <<>> /\ calls = 0
    /\ MainIdle /\ PctIdle /\ HttpIdle /\ OpsIdle

\* check_jmeter: exit 1 when the JMeter binary is not there.  With a payload
\* size on its command line run-stepping-test.sh runs one test, else the suite.
CheckJmeter ==
    /\ pc = "check_jmeter"
    /\ IF ~invocation.jmeter THEN pc' = "exited" /\ exitStatus' = 1
       ELSE /\ pc' = IF invocation.PAYLOAD_SIZE_ARG # "" THEN "single" ELSE "for"
            /\ exitStatus' = exitStatus
    /\ UNCHANGED <<mainVars, opsVars, pctVars, httpVars, invocation, current_test, failed_tests,
                   attempted, returns, summary, catVars, dataPoints, parseVars, statVars>>

\* The history of JMeter's exit statuses after one more run.
JMeterReturned(status) ==
    [nonzero |-> IF status # 0 THEN returns.nonzero + 1 ELSE returns.nonzero,
     first |-> IF status # 0 /\ returns.first = 0 THEN Len(attempted) + 1 ELSE returns.first]

\* Single test mode of run-stepping-test.sh: exit 1 when the test fails.
SingleTest ==
    /\ pc = "single"
    /\ \E status \in JMeterStatuses :
        /\ attempted' = Append(attempted, invocation.PAYLOAD_SIZE_ARG)
        /\ returns' = JMeterReturned(status)
        /\ exitStatus' = IF status # 0 THEN 1 ELSE 0
    /\ timeline' = timeline \o <<[kind |-> "test", test |-> 1]>>
    /\ pc' = "exited"
    /\ UNCHANGED <<mainVars, pctVars, httpVars, offSuiteVars, invocation, current_test, failed_tests,
                   summary, catVars, dataPoints, parseVars, statVars>>

\* set -e in force where run_test is called, a failed test ending the script:
\* a mutant
AfterTestErrexit(status, nth) ==
    IF status # 0 THEN "exited" ELSE IF nth < total_tests THEN "break" ELSE "for"

\* Where the loop goes after if ! run_test ...; then ...; fi: to run_break
\* when [ $current_test -lt $total_tests ], else to the end of the loop.
AfterTest(status, nth) == IF nth < total_tests THEN "break" ELSE "for"

\* run_test without its cool-down period, a failed test skipping it: a mutant
TestEventsCoolDownOnSuccess(script, n, status) ==
    IF script = "run-all-tests.sh" /\ status = 0
    THEN <<[kind |-> "test", test |-> n], [kind |-> "cool-down", test |-> n]>>
    ELSE <<[kind |-> "test", test |-> n]>>

\* What the n-th test adds to the timeline: run_test runs JMeter and then,
\* whatever the exit code, sleeps COOLDOWN_TIME before it returns;
\* run_stepping_test has no cool-down.
TestEvents(script, n, status) ==
    IF script = "run-all-tests.sh"
    THEN <<[kind |-> "test", test |-> n], [kind |-> "cool-down", test |-> n]>>
    ELSE <<[kind |-> "test", test |-> n]>>

\* One turn of the for loop up to the break: current_test is incremented,
\* run_test (or run_stepping_test) hands the entry to JMeter and returns its
\* exit status, and a nonzero status increments failed_tests.
RunTest ==
    /\ pc = "for"
    /\ current_test < total_tests
    /\ current_test' = current_test + 1
    /\ \E status \in JMeterStatuses :
        /\ attempted' = Append(attempted, Matrix(invocation.script)[current_test'])
        /\ returns' = JMeterReturned(status)
        /\ failed_tests' = IF status # 0 THEN failed_tests + 1 ELSE failed_tests
        /\ timeline' = timeline \o TestEvents(invocation.script, current_test', status)
        /\ pc' = AfterTest(status, current_test')
    /\ UNCHANGED <<mainVars, pctVars, httpVars, offSuiteVars, invocation, summary, exitStatus,
                   catVars, dataPoints, parseVars, statVars>>

\* run_break: the break period after test current_test
RunBreak ==
    /\ pc = "break"
    /\ timeline' = Append(timeline, [kind |-> "break", test |-> current_test])
    /\ pc' = "for"
    /\ UNCHANGED <<mainVars, pctVars, httpVars, suiteVars, offSuiteVars, catVars, dataPoints,
                   parseVars, statVars>>

\* After the loop: the final summary, generate_summary_report, and exit 1 when
\* failed_tests is above 0.
FinalSummary ==
    /\ pc = "for"
    /\ current_test = total_tests
    /\ summary' = [Total |-> total_tests, Successful |-> total_tests - failed_tests,
                   Failed |-> failed_tests]
    /\ exitStatus' = IF failed_tests > 0 THEN 1 ELSE 0
    /\ pc' = "exited"
    /\ UNCHANGED <<mainVars, opsVars, pctVars, httpVars, invocation, current_test, failed_tests,
                   attempted, returns, catVars, dataPoints, parseVars, statVars>>

NextSuite == CheckJmeter \/ SingleTest \/ RunTest \/ RunBreak \/ FinalSummary

SpecSuite == InitSuite /\ [][NextSuite]_vars

\* The script runs its whole matrix: JMeter is installed and, for
\* run-stepping-test.sh, no payload size is given on the command line.
FullSuite == invocation.jmeter /\ invocation.PAYLOAD_SIZE_ARG = ""

\* C20: a full suite hands the entries of its matrix (32 for run-all-tests.sh,
\* 7 for run-stepping-test.sh) to JMeter in matrix order and ends only after
\* the last one, whatever statuses JMeter returned; the summary's Failed is
\* the number of nonzero statuses, Successful + Failed = Total, and the exit
\* status is nonzero exactly when some status was nonzero.
C20_SuiteRunsAllAndCounts ==
    FullSuite =>
        /\ Len(tests) = 32 /\ Len(payload_sizes) = 7
        /\ attempted = SubSeq(Matrix(invocation.script), 1, Len(attempted))
        /\ pc = "exited" =>
              /\ Len(attempted) = Len(Matrix(invocation.script))
              /\ summary.Total = Len(Matrix(invocation.script))
              /\ summary.Failed = returns.nonzero
              /\ summary.Successful + summary.Failed = summary.Total
              /\ exitStatus # 0 <=> returns.nonzero > 0

\* run-all-tests.sh has ended after its first test failed and the 31 after it
\* passed.
C20_Witness ==
    /\ FullSuite
    /\ invocation.script = "run-all-tests.sh"
    /\ pc = "exited"
    /\ returns = [nonzero |-> 1, first |-> 1]
    /\ Len(attempted) = 32
(***************************************************************************)
(* Cool-downs and breaks of run-all-tests.sh                               *)
(***************************************************************************)

\* The timeline of a run of run-all-tests.sh that has finished k tests and, if
\* withBreak, the break after the k-th: test 1, cool-down 1, break 1, test 2, ...
RECURSIVE Rounds(_, _)
Rounds(k, withBreak) ==
    IF k = 0 THEN <<>>
    ELSE Rounds(k - 1, TRUE)
         \o <<[kind |-> "test", test |-> k], [kind |-> "cool-down", test |-> k]>>
         \o (IF withBreak THEN <<[kind |-> "break", test |-> k]>> ELSE <<>>)

CountKind(kind) == Cardinality({i \in 1..Len(timeline) : timeline[i].kind = kind})

\* C21: in run-all-tests.sh every test, passed or failed, is followed by its
\* cool-down, and a break follows the cool-down of every test but the last:
\* at every moment the timeline is test 1, cool-down 1, break 1, test 2, ...
\* up to the point reached, and the finished suite of N tests holds N
\* cool-downs and N-1 breaks.
C21_CoolDownAfterEveryTestBreakBetween ==
    (invocation.script = "run-all-tests.sh" /\ invocation.jmeter) =>
        /\ pc = "break" => timeline = Rounds(current_test, FALSE)
        /\ pc = "for" =>
              timeline = Rounds(current_test, current_test < total_tests)
        /\ pc = "exited" =>
              /\ timeline = Rounds(total_tests, FALSE)
              /\ CountKind("test") = total_tests
              /\ CountKind("cool-down") = total_tests
              /\ CountKind("break") = total_tests - 1

\* run-all-tests.sh has run its 32 tests, some of them failed, and has ended
C21_Witness ==
    /\ invocation.script = "run-all-tests.sh"
    /\ pc = "exited" /\ current_test = total_tests
    /\ failed_tests > 0 /\ failed_tests < total_tests
    /\ CountKind("cool-down") = 32 /\ CountKind("break") = 31
(***************************************************************************)
(* run-stepping-test.sh: the thread schedule                               *)
(***************************************************************************)

STEP_DURATION == 120
TOTAL_STEPS == 13
TOTAL_DURATION == STEP_DURATION * TOTAL_STEPS
ramp_time == 30
shutdown_time == 10

\* The largest max_threads argument tried besides those of the usage examples
MaxThreadsArg == 40

\* The payload sizes of the stepping suite, as numbers
SchedulePayloads == {1024, 4096, 51200, 204800, 1048576, 2097152, 5242880}

\* The second argument of the script: <<>> when absent, <<n>> when given
ThreadArgs == {<<>>} \cup {<<n>> : n \in (0..MaxThreadsArg) \cup {1024, 2048, 4096}}

\* calculate_max_threads: the argument when given, else by payload size
calculate_max_threads(payload_size, arg) ==
    IF arg # <<>> THEN arg[1]
    ELSE IF payload_size <= 1024 THEN 1024
    ELSE IF payload_size <= 4096 THEN 512
    ELSE IF payload_size <= 51200 THEN 256
    ELSE IF payload_size <= 204800 THEN 128
    ELSE IF payload_size <= 1048576 THEN 64
    ELSE IF payload_size <= 2097152 THEN 32
    ELSE 16

\* calculate_steps: its while loop from the state (current, steps)
RECURSIVE StepsLoop(_, _)
StepsLoop(cur, steps) ==
    IF cur > 1 THEN StepsLoop(cur \div 2, steps + 1) ELSE steps

calculate_steps(max) == StepsLoop(max, 1)

\* generate_thread_progression: its while loop; the levels joined by arrows
\* are modelled as their sequence
RECURSIVE ProgressionLoop(_, _)
ProgressionLoop(cur, progression) ==
    IF cur > 1 THEN ProgressionLoop(cur \div 2, Append(progression, cur \div 2))
    ELSE progression

generate_thread_progression(max) == ProgressionLoop(max, <<max>>)

\* current rounded up when halved: a mutant
HalveUp(cur) == (cur + 1) \div 2

\* current=$((current / 2))
Halve(cur) == cur \div 2

\* start_time advancing by the hold time alone: a mutant
StepLengthHoldOnly(step_duration) == step_duration

\* What start_time advances by: step_duration + ramp_time + shutdown_time
StepLength(step_duration) == step_duration + ramp_time + shutdown_time

InitSchedule ==
    /\ pc = "calculate_max_threads"
    /\ SchedIdle
    /\ input = <<>> /\ dataPoints = <<>> /\ parseErr = "none"
    /\ size = 0 /\ stdIdx = 1 /\ minDiff = MaxInt /\ nearest = "1KB"
    /\ groups = <<>> /\ pending = {} /\ stats = <<>>
    /\ axes = [x |-> "none", y |-> "none"]
    /\ printed = <<>> /\ prevStats = <<>> /\ calls = 0
    /\ timeline = <<>> /\ PoolIdle /\ LogIdle /\ DeployIdle
    /\ MainIdle /\ PctIdle /\ HttpIdle /\ SuiteIdle

\* main, run_stepping_test: max_threads is computed and
\* generate_thread_group_config is entered with its locals initialised
CalculateMaxThreads ==
    /\ pc = "calculate_max_threads"
    /\ \E payload_size \in SchedulePayloads, arg \in ThreadArgs :
        /\ max_threads' = calculate_max_threads(payload_size, arg)
        /\ current' = max_threads'
    /\ step_num' = 1 /\ start_time' = 0 /\ config' = <<>>
    /\ pc' = "generate"
    /\ UNCHANGED <<mainVars, pctVars, httpVars, suiteVars, timeline, poolVars, logVars, deployVars,
                   catVars, dataPoints, parseVars, statVars>>

\* One turn of the while loop of generate_thread_group_config: the step is
\* appended to config, start_time and step_num advance, and the loop breaks
\* at 1 thread or halves current.
EmitStep ==
    /\ pc = "generate"
    /\ current >= 1
    /\ config' = Append(config, [step |-> step_num, threads |-> current,
                                  initial_delay |-> start_time,
                                  startup_time |-> ramp_time,
                                  hold_load |-> STEP_DURATION,
                                  shutdown_time |-> shutdown_time])
    /\ start_time' = start_time + StepLength(STEP_DURATION)
    /\ step_num' = step_num + 1
    /\ IF current = 1 THEN pc' = "emitted" /\ current' = current
       ELSE pc' = pc /\ current' = Halve(current)
    /\ UNCHANGED <<mainVars, pctVars, httpVars, suiteVars, timeline, poolVars, logVars, deployVars, max_threads,
                   catVars, dataPoints, parseVars, statVars>>

\* The while condition [ $current -ge 1 ] fails: echo "$config"
LoopEnds ==
    /\ pc = "generate"
    /\ ~(current >= 1)
    /\ pc' = "emitted"
    /\ UNCHANGED <<mainVars, laterVars, catVars, dataPoints, parseVars, statVars>>

NextSchedule == CalculateMaxThreads \/ EmitStep \/ LoopEnds

SpecSchedule == InitSchedule /\ [][NextSchedule]_vars

\* The shell runs the function's next command whenever there is one.
SpecScheduleFair == SpecSchedule /\ WF_vars(NextSchedule)

\* C22: the schedule handed to JMeter doubles the threads at each 2-minute
\* step, ascending through 13 steps from 1 to 4096 threads, 26 minutes in all.
C22_AscendingDoublingSchedule ==
    (pc = "emitted" /\ max_threads >= 1) =>
        /\ Len(config) = TOTAL_STEPS
        /\ \A i \in 1..Len(config) :
              /\ config[i].threads = Pow2(i - 1)
              /\ config[i].initial_delay = (i - 1) * STEP_DURATION
        /\ start_time = TOTAL_DURATION
(***************************************************************************)
(* Termination of parseCSV                                                 *)
(***************************************************************************)

\* C23: parseCSV terminates on every input: once the file is open, the read
\* loop ends and parseCSV returns, whatever the reader produces.
C23_ParseCSVTerminates == (pc = "read") ~> (pc = "parsed")
(***************************************************************************)
(* The order of the checks of processHandler                               *)
(***************************************************************************)

\* The first check of the claimed order that the request fails, as the status
\* and the error text of its response; status 200 when it passes them all.
FirstFailingCheck(req) ==
    LET parsed == ParseFloat64(req.sleep_time.text)
        sleepTime == IF req.sleep_time.present THEN parsed.val ELSE DefaultSleepTime
    IN  IF req.method # "POST" THEN [status |-> 405, error |-> "Method not allowed"]
        ELSE IF req.sleep_time.present /\ ~parsed.ok
             THEN [status |-> 400, error |-> "Invalid sleep_time parameter"]
        ELSE IF Negative(sleepTime)
             THEN [status |-> 400, error |-> "sleep_time must be non-negative"]
        ELSE IF Above60(sleepTime)
             THEN [status |-> 400, error |-> "sleep_time cannot exceed 60 seconds"]
        ELSE IF req.contentType # "application/json"
             THEN [status |-> 400, error |-> "Content-Type must be application/json"]
        ELSE IF req.body.json # "valid" THEN [status |-> 400, error |-> "Invalid JSON"]
        ELSE [status |-> 200, error |-> ""]

\* The response is the one of the first failing check, and the handler has
\* slept exactly when no check failed.
ChecksInOrder(outcome) ==
    (request # NoRequest /\ request.path = "/api/process" /\ outcome # NotServed) =>
        LET first == FirstFailingCheck(request)
        IN  /\ outcome.status = first.status
            /\ first.status # 200 => outcome.body.error = first.error
            /\ outcome.slept.called <=> first.status = 200

\* C24: processHandler checks the method, then that sleep_time parses, then
\* that it is not below 0, then not above 60, then the Content-Type, then the
\* JSON of the body; the first failing check alone determines the response
\* and a rejected request never sleeps.  Stated of both services.
C24_ChecksInOrder == ChecksInOrder(netOutcome) /\ ChecksInOrder(fastOutcome)
(***************************************************************************)
(* The success response of POST /api/process                               *)
(***************************************************************************)

\* The response with status 200 carries the four fields, sleep_time being
\* the time the handler slept and payload_size the length of the body sent.
SuccessResponseComplete(outcome) ==
    (ProcessPost /\ outcome # NotServed /\ outcome.status = 200) =>
        /\ outcome.slept.called
        /\ outcome.body = [status |-> "success",
                           message |-> "JSON validated and processed",
                           sleep_time |-> outcome.slept.time,
                           payload_size |-> request.body.size]

\* C25: every success response of POST /api/process has status "success",
\* message "JSON validated and processed", the sleep time used for the
\* request and the number of bytes of its body.  Stated of both services.
C25_SuccessResponse ==
    SuccessResponseComplete(netOutcome) /\ SuccessResponseComplete(fastOutcome)
(***************************************************************************)
(* The fasthttp service: pooled response objects under concurrent requests *)
(***************************************************************************)

\* The most objects one pool's New is let allocate
MaxPooled == 2

\* What the handlers put into a response: no fields for /health, the error
\* text for a rejected request, the four fields for a processed one.
PoolRequests ==
    {[handler |-> "health"],
     [handler |-> "error", Error |-> "Method not allowed"],
     [handler |-> "error", Error |-> "Invalid sleep_time parameter"],
     [handler |-> "process", SleepTime |-> Num(3), PayloadSize |-> 2],
     [handler |-> "process", SleepTime |-> Num(100), PayloadSize |-> 0],
     [handler |-> "process", SleepTime |-> NaN, PayloadSize |-> 2]}

PoolOf(req) ==
    IF req.handler = "health" THEN "healthResponsePool"
    ELSE IF req.handler = "process" THEN "processResponsePool"
    ELSE "errorResponsePool"

\* The New functions of the three pools
New(pool) ==
    IF pool = "healthResponsePool" THEN [Status |-> "healthy"]
    ELSE IF pool = "processResponsePool"
         THEN [Status |-> "", Message |-> "", SleepTime |-> Num(0), PayloadSize |-> 0]
    ELSE [Error |-> ""]

\* The assignments a handler makes to its object between Get and Encode
Assigned(req) ==
    IF req.handler = "process"
    THEN [Status |-> "success", Message |-> "JSON validated and processed",
          SleepTime |-> req.SleepTime, PayloadSize |-> req.PayloadSize]
    ELSE IF req.handler = "error" THEN [Error |-> req.Error]
    ELSE <<>>

\* json.NewEncoder(ctx).Encode(resp): the object's fields, or nothing when a
\* field is NaN
Encoded(fields) ==
    IF "SleepTime" \in DOMAIN fields /\ fields.SleepTime.kind = "nan"
    THEN [empty |-> TRUE]
    ELSE fields

\* The response of a handler that allocates its object for the request
PerRequestAllocation(req) ==
    Encoded([f \in DOMAIN New(PoolOf(req)) |->
                IF f \in DOMAIN Assigned(req) THEN Assigned(req)[f]
                ELSE New(PoolOf(req))[f]])

\* Get leaving the object in the pool: a mutant
PoolAfterGetShared(free, addr) == free

\* sync.Pool.Get removes the object it returns from the pool
PoolAfterGet(free, addr) == free \ {addr}

\* The object goroutine g holds
Held(g) == heap[PoolOf(handlers[g].request)][handlers[g].obj]

InitPool ==
    /\ pc = "serve"
    /\ PoolIdle
    /\ input = <<>> /\ dataPoints = <<>> /\ parseErr = "none"
    /\ size = 0 /\ stdIdx = 1 /\ minDiff = MaxInt /\ nearest = "1KB"
    /\ groups = <<>> /\ pending = {} /\ stats = <<>>
    /\ axes = [x |-> "none", y |-> "none"]
    /\ printed = <<>> /\ prevStats = <<>> /\ calls = 0
    /\ timeline = <<>> /\ SchedIdle /\ LogIdle /\ DeployIdle
    /\ MainIdle /\ PctIdle /\ HttpIdle /\ SuiteIdle

PoolFrame ==
    UNCHANGED <<pc, mainVars, pctVars, httpVars, suiteVars, timeline, schedVars,
                logVars, deployVars, catVars, dataPoints, parseVars, statVars>>

\* requestHandler is called in goroutine g with a request
Accept(g) ==
    /\ handlers[g].pc = "accept"
    /\ \E req \in PoolRequests :
        handlers' = [handlers EXCEPT ![g] =
                        [pc |-> "get", request |-> req, obj |-> 0, written |-> {},
                         response |-> NoResponse]]
    /\ UNCHANGED <<heap, pooled>>
    /\ PoolFrame

\* pool.Get(): an object of the pool, or a new one from New
PoolGet(g) ==
    /\ handlers[g].pc = "get"
    /\ LET pool == PoolOf(handlers[g].request)
           next == IF handlers[g].request.handler = "health" THEN "encode" ELSE "write"
       IN  \/ \E addr \in pooled[pool] :
                /\ pooled' = [pooled EXCEPT ![pool] = PoolAfterGet(@, addr)]
                /\ handlers' = [handlers EXCEPT ![g].obj = addr, ![g].pc = next]
                /\ heap' = heap
           \/ /\ Len(heap[pool]) < MaxPooled
              /\ heap' = [heap EXCEPT ![pool] = Append(@, New(pool))]
              /\ handlers' = [handlers EXCEPT ![g].obj = Len(heap[pool]) + 1, ![g].pc = next]
              /\ pooled' = pooled
    /\ PoolFrame

\* The assignments to the fields of the object
WriteFields(g) ==
    /\ handlers[g].pc = "write"
    /\ heap' = [heap EXCEPT ![PoolOf(handlers[g].request)][handlers[g].obj] =
                                Assigned(handlers[g].request)]
    /\ handlers' = [handlers EXCEPT ![g].written = DOMAIN Assigned(handlers[g].request),
                                    ![g].pc = "encode"]
    /\ pooled' = pooled
    /\ PoolFrame

\* json.NewEncoder(ctx).Encode(resp)
Encode(g) ==
    /\ handlers[g].pc = "encode"
    /\ handlers' = [handlers EXCEPT ![g].response = Encoded(Held(g)),
                                    ![g].pc = "put"]
    /\ UNCHANGED <<heap, pooled>>
    /\ PoolFrame

\* pool.Put(resp), deferred in healthHandler; the handler returns
PoolPut(g) ==
    /\ handlers[g].pc = "put"
    /\ pooled' = [pooled EXCEPT ![PoolOf(handlers[g].request)] = @ \cup {handlers[g].obj}]
    /\ handlers' = [handlers EXCEPT ![g] = Waiting]
    /\ heap' = heap
    /\ PoolFrame

NextPool ==
    \E g \in Goroutines : Accept(g) \/ PoolGet(g) \/ WriteFields(g) \/ Encode(g) \/ PoolPut(g)

SpecPool == InitPool /\ [][NextPool]_vars

\* An object is held by at most one request between Get and Put, and a held
\* object is in no pool.
HeldByOne ==
    \A g \in Goroutines :
        handlers[g].obj # 0 =>
            /\ \A h \in Goroutines \ {g} :
                  PoolOf(handlers[h].request) = PoolOf(handlers[g].request) =>
                      handlers[h].obj # handlers[g].obj
            /\ handlers[g].obj \notin pooled[PoolOf(handlers[g].request)]

\* Each response is the one per-request allocation gives for its request.
OwnValuesOnly ==
    \A g \in Goroutines :
        handlers[g].response # NoResponse =>
            handlers[g].response = PerRequestAllocation(handlers[g].request)

\* Every field that is encoded was written by the request before encoding.
EncodedFieldsWritten ==
    \A g \in Goroutines :
        handlers[g].pc = "put" =>
            DOMAIN Held(g) \subseteq handlers[g].written

\* C26 as stated: a pooled object is held by at most one request, every
\* encoded field is written by that request before encoding, and each response
\* holds only values of its own request, as with per-request allocation.
C26_PoolReuseAsStated == HeldByOne /\ EncodedFieldsWritten /\ OwnValuesOnly

\* Every encoded field was written by the request before encoding, or belongs
\* to a HealthResponse, which no handler ever writes and which therefore
\* still holds the value New gave it.
EncodedFieldsWrittenOrNeverWritten ==
    /\ \A g \in Goroutines :
          (handlers[g].pc = "put" /\ handlers[g].request.handler # "health") =>
              DOMAIN Held(g) \subseteq handlers[g].written
    /\ \A i \in 1..Len(heap["healthResponsePool"]) :
          heap["healthResponsePool"][i] = New("healthResponsePool")

\* C26 amended: a pooled object is held by at most one request between Get and
\* Put; processHandler writes every encoded field before encoding, while
\* healthHandler writes none and encodes the Status that New set and nothing
\* changes; each response holds only values of its own request, as with
\* per-request allocation.
C26_PoolReuseUnobservable ==
    HeldByOne /\ EncodedFieldsWrittenOrNeverWritten /\ OwnValuesOnly

\* A request has encoded an object that another request wrote before it, while
\* the other goroutine is between Get and Put
C26_Witness ==
    \E g \in Goroutines, h \in Goroutines :
        /\ g # h
        /\ handlers[g].pc = "put" /\ handlers[g].request.handler = "process"
        /\ handlers[g].response =
              [Status |-> "success", Message |-> "JSON validated and processed",
               SleepTime |-> Num(3), PayloadSize |-> 2]
        /\ handlers[h].pc = "encode" /\ handlers[h].request.handler = "process"
        /\ handlers[h].obj # 0 /\ Held(h).SleepTime = Num(100)
        /\ Len(heap["processResponsePool"]) = 2
(***************************************************************************)
(* The log functions of the two test scripts                               *)
(***************************************************************************)

\* The most calls of log followed
MaxLogLines == 4

\* Arguments log is called with
LogMessages == {"", "Total tests to run: 32", "Progress: Test 1 of 32"}

TestScripts == {"run-all-tests.sh", "run-stepping-test.sh"}

\* The output of date '+%Y-%m-%d %H:%M:%S' in brackets
Timestamp == "[YYYY-MM-DD HH:MM:SS]"

\* The line echo writes: in run-stepping-test.sh the timestamp and $1; in
\* run-all-tests.sh the timestamp and $0.03, which is $0, the name the script
\* was started under, followed by the characters .03
LogLine(script, arg) ==
    IF script = "run-all-tests.sh"
    THEN [timestamp |-> Timestamp, text |-> <<"./run-all-tests.sh", ".03">>]
    ELSE [timestamp |-> Timestamp, text |-> <<arg>>]

InitLog ==
    /\ pc = "log"
    /\ invocation \in [script : TestScripts, PAYLOAD_SIZE_ARG : {""}, jmeter : {TRUE}]
    /\ current_test = 0 /\ failed_tests = 0 /\ attempted = <<>>
    /\ returns = NoReturns /\ summary = NoSummary /\ exitStatus = -1
    /\ input = <<>> /\ dataPoints = <<>> /\ parseErr = "none"
    /\ size = 0 /\ stdIdx = 1 /\ minDiff = MaxInt /\ nearest = "1KB"
    /\ groups = <<>> /\ pending = {} /\ stats = <<>>
    /\ axes = [x |-> "none", y |-> "none"]
    /\ printed = <<>> /\ prevStats = <<>> /\ calls = 0
    /\ timeline = <<>> /\ SchedIdle /\ PoolIdle /\ LogIdle /\ DeployIdle
    /\ MainIdle /\ PctIdle /\ HttpIdle

\* log "<message>": echo ... | tee -a "$LOG_FILE"
Log ==
    /\ pc = "log"
    /\ Len(logged) < MaxLogLines
    /\ \E arg \in LogMessages :
        /\ logged' = Append(logged, arg)
        /\ stdout' = Append(stdout, LogLine(invocation.script, arg))
        /\ LOG_FILE' = Append(LOG_FILE, LogLine(invocation.script, arg))
    /\ UNCHANGED <<pc, osArgs, pctVars, httpVars, suiteVars, timeline, schedVars, poolVars,
                   deployVars, catVars, dataPoints, parseVars, statVars>>

NextLog == Log

SpecLog == InitLog /\ [][NextLog]_vars

\* C27: log of run-all-tests.sh writes its argument behind a timestamp to
\* standard output and appends the same line to the log file, as log of
\* run-stepping-test.sh does: the i-th line of both is the timestamp and the
\* i-th argument.
C27_LogWritesItsArgument ==
    /\ Len(stdout) = Len(logged)
    /\ LOG_FILE = stdout
    /\ \A i \in 1..Len(logged) :
          stdout[i] = [timestamp |-> Timestamp, text |-> <<logged[i]>>]
(***************************************************************************)
(* The emitted thread schedule                                             *)
(***************************************************************************)

\* The thread levels of the emitted steps, in order
Levels == [i \in 1..Len(config) |-> config[i].threads]

\* The levels generate_thread_group_config has emitted for max_threads >= 1
\* when it ends are max_threads, max_threads div 2, max_threads
\* div 4, ... down to 1, each once and numbered from 1; their number is
\* calculate_steps(max_threads) and they are the levels
\* generate_thread_progression(max_threads) lists.
C28_LevelsEmitted ==
    (pc = "emitted" /\ max_threads >= 1) =>
        /\ Len(config) >= 1
        /\ \A i \in 1..Len(config) :
              /\ config[i].threads = max_threads \div Pow2(i - 1)
              /\ config[i].step = i
        /\ config[Len(config)].threads = 1
        /\ \A i \in 1..Len(config), j \in 1..Len(config) :
              i # j => config[i].threads # config[j].threads
        /\ Len(config) = calculate_steps(max_threads)
        /\ Levels = generate_thread_progression(max_threads)

WindowStart(stp) == stp.initial_delay
WindowEnd(stp) == stp.initial_delay + stp.startup_time + stp.hold_load + stp.shutdown_time

\* The most threads scheduled at instant t: those of every step whose window
\* holds t
RECURSIVE ScheduledLoop(_, _)
ScheduledLoop(i, t) ==
    IF i = 0 THEN 0
    ELSE ScheduledLoop(i - 1, t)
         + (IF WindowStart(config[i]) <= t /\ t < WindowEnd(config[i])
            THEN config[i].threads ELSE 0)

Scheduled(t) == ScheduledLoop(Len(config), t)

JMeterDeployScripts ==
    {"jmeter-tests/openshift/deploy.sh", "jmeter-tests/openshift/deploy-both.sh",
     "jmeter-tests/openshift/deploy-nanogw.sh"}
DeployScripts ==
    JMeterDeployScripts \cup {"nanogw-api/deploy.sh", "rest-api-app/openshift/deploy.sh"}

\* What is typed at the prompt
Answers == {"y", "n", "", "Y", "yes"}

\* The script started, whether oc is installed and logged in, whether the
\* target namespace exists, whether a DeploymentConfig jmeter-tests exists
Deployments ==
    [script : DeployScripts, oc : BOOLEAN, whoami : BOOLEAN, namespace : BOOLEAN,
     dc : BOOLEAN]

\* The cluster-modifying oc commands after the prompt, in the order of the
\* script
DeployCommands(d) ==
    IF d.script = "jmeter-tests/openshift/deploy.sh"
    THEN <<"oc apply buildconfig", "oc start-build", "oc apply deployment">>
    ELSE IF d.script \in JMeterDeployScripts
    THEN (IF d.dc THEN <<"oc delete dc">> ELSE <<>>)
         \o <<"oc apply buildconfig", "oc start-build", "oc apply deployment">>
    ELSE IF d.script = "nanogw-api/deploy.sh"
    THEN <<"oc apply configmap", "oc apply api">>
    ELSE <<"oc apply buildconfig", "oc start-build", "oc apply deployment", "oc apply hpa">>

InitDeploy ==
    /\ pc = "check_oc"
    /\ deployment \in Deployments
    /\ CONFIRM = "" /\ cluster = <<>>
    /\ input = <<>> /\ dataPoints = <<>> /\ parseErr = "none"
    /\ size = 0 /\ stdIdx = 1 /\ minDiff = MaxInt /\ nearest = "1KB"
    /\ groups = <<>> /\ pending = {} /\ stats = <<>>
    /\ axes = [x |-> "none", y |-> "none"]
    /\ printed = <<>> /\ prevStats = <<>> /\ calls = 0
    /\ timeline = <<>> /\ SchedIdle /\ PoolIdle /\ LogIdle
    /\ MainIdle /\ PctIdle /\ HttpIdle /\ SuiteIdle

DeployFrame ==
    UNCHANGED <<mainVars, pctVars, httpVars, invocation, current_test, failed_tests,
                attempted, returns, summary, timeline, schedVars, poolVars, logVars,
                catVars, dataPoints, parseVars, statVars>>

\* command -v oc and oc whoami: exit 1 when either fails
CheckOc ==
    /\ pc = "check_oc"
    /\ IF deployment.oc /\ deployment.whoami
       THEN pc' = "namespace" /\ exitStatus' = exitStatus
       ELSE pc' = "exited" /\ exitStatus' = 1
    /\ UNCHANGED deployVars
    /\ DeployFrame

\* The namespace before the prompt: the three scripts of jmeter-tests create
\* the namespace jmeter when oc get namespace does not find it;
\* nanogw-api/deploy.sh exits with 1 then; rest-api-app/openshift/deploy.sh
\* uses the current project.
CheckNamespace ==
    /\ pc = "namespace"
    /\ IF deployment.script \in JMeterDeployScripts
       THEN /\ cluster' = IF deployment.namespace THEN cluster
                          ELSE Append(cluster, "oc create namespace")
            /\ pc' = "prompt" /\ exitStatus' = exitStatus
       ELSE IF deployment.script = "nanogw-api/deploy.sh" /\ ~deployment.namespace
       THEN cluster' = cluster /\ pc' = "exited" /\ exitStatus' = 1
       ELSE cluster' = cluster /\ pc' = "prompt" /\ exitStatus' = exitStatus
    /\ UNCHANGED <<deployment, CONFIRM>>
    /\ DeployFrame

\* read -p "Continue with deployment? (y/n): " CONFIRM and the test of it:
\* "Deployment cancelled" and exit 0 unless the answer is y
Prompt ==
    /\ pc = "prompt"
    /\ \E answer \in Answers :
        /\ CONFIRM' = answer
        /\ IF answer # "y"
           THEN pc' = "cancelled" /\ exitStatus' = 0
           ELSE pc' = "deploy" /\ exitStatus' = exitStatus
    /\ UNCHANGED <<deployment, cluster>>
    /\ DeployFrame

\* The commands of the script that have run since the prompt
RanSincePrompt ==
    Len(cluster) - (IF cluster # <<>> /\ cluster[1] = "oc create namespace" THEN 1 ELSE 0)

\* The next cluster-modifying command of the script succeeds
RunCommand ==
    /\ pc = "deploy"
    /\ RanSincePrompt < Len(DeployCommands(deployment))
    /\ cluster' = Append(cluster, DeployCommands(deployment)[RanSincePrompt + 1])
    /\ UNCHANGED <<pc, exitStatus, deployment, CONFIRM>>
    /\ DeployFrame

\* The next command fails: set -e, or the explicit exit 1 after a failed build
CommandFails ==
    /\ pc = "deploy"
    /\ RanSincePrompt < Len(DeployCommands(deployment))
    /\ pc' = "exited" /\ exitStatus' = 1
    /\ UNCHANGED deployVars
    /\ DeployFrame

\* The script reaches its end
Deployed ==
    /\ pc = "deploy"
    /\ RanSincePrompt = Len(DeployCommands(deployment))
    /\ pc' = "exited" /\ exitStatus' = 0
    /\ UNCHANGED deployVars
    /\ DeployFrame

NextDeploy == CheckOc \/ CheckNamespace \/ Prompt \/ RunCommand \/ CommandFails \/ Deployed

SpecDeploy == InitDeploy /\ [][NextDeploy]_vars

\* C30: in every deploy script an answer other than y at the prompt ends the
\* script with exit code 0 and the cluster unchanged: no cluster-modifying oc
\* command has run when the prompt is reached, none has run when the script
\* is cancelled, and the script goes on only after the answer y.
C30_CancelLeavesClusterUnchanged ==
    /\ pc = "prompt" => cluster = <<>>
    /\ pc = "cancelled" => CONFIRM # "y" /\ exitStatus = 0 /\ cluster = <<>>
    /\ pc = "deploy" => CONFIRM = "y"
    /\ (deployment # NoDeployment /\ cluster # <<>>) =>
          CONFIRM = "y" /\ pc \in {"deploy", "exited"}
====
